---- MODULE Spec2Model ----
(***************************************************************************)
(* A model of the KeckODL observing-description library: instrument        *)
(* configs and the calibration blocks they synthesise, observing blocks,   *)
(* observing block lists and their time estimates.                         *)
(*                                                                         *)
(* Python objects have identity.  Instrument configs live in `heap', a     *)
(* sequence of records; the identity of a config is its index.  A block    *)
(* refers to its instrument config by that index, so two blocks can share  *)
(* one config object, or carry two distinct objects with equal fields.     *)
(***************************************************************************)
EXTENDS Integers, Sequences, FiniteSets, TLC

VARIABLES
    pkg,      \* which package the objects come from: "odl" or "keckODL"
    heap,     \* instrument config objects, by identity
    ncfg,     \* heap[1..ncfg] are the configs the caller built
    obl,      \* the ObservingBlockList under study (its .data)
    adopted,  \* TRUE when obl is a list returned by an instrument config's cals()
    ret,      \* what the last call returned
    tdata,    \* the ObservingBlockList whose time is estimated (its .data)
    est,      \* what the last time estimate gave
    obj,      \* the object under study: a pattern, a detector config, a target
    res,      \* what the last operation on obj did
    file      \* what is stored at the path write() is given

calvars == <<heap, ncfg, obl, adopted, ret>>

timevars == <<tdata, est>>

objvars == <<obj, res, file>>

vars == <<pkg, heap, ncfg, obl, adopted, ret, tdata, est, obj, res, file>>

(***************************************************************************)
(* Bounds of the model.                                                    *)
(***************************************************************************)
\* Blocks in the list whose calibrations are collected.
MaxBlocks == 2

\* Calls on a single config or a single block are explored for lists of at
\* most this many blocks.
MaxDirect == 1

\* Blocks in the list whose time is estimated, detector configs on one block,
\* and detector configs on all blocks of the list together.
MaxTimeBlocks == 2

MaxDet == 2

MaxDetTotal == 3

Packages == {"odl", "keckODL"}

(***************************************************************************)
(* Constants for the instruments.                                          *)
(***************************************************************************)
\* The lamp table with the FEAR and THAR entries exchanged.
lamp_exptimes_swapped == [FEAR |-> 45, THAR |-> 30, CONT |-> 6]

lamp_exptimes == [FEAR |-> 30, THAR |-> 45, CONT |-> 6]

exptime_for_domeflats == [Y |-> 17, J |-> 11, H |-> 11, K |-> 11]

\* Lamp names a caller may pass to arcs(): the table's, and one outside it.
LampNames == {"FEAR", "THAR", "CONT", "Ne", "Ar"}

\* Filters a caller may give a MOSFIREConfig: the table's, and one outside it.
Filters == {"Y", "J", "H", "K", "Ks"}

Slicers == {"medium", "FPC"}

BlockClasses ==
    {"ScienceBlock", "TelluricBlock", "StandardStarBlock", "CalibrationBlock",
     "FocusBlock"}

\* str(not off)
PyBool(b) == IF b THEN "True" ELSE "False"

(***************************************************************************)
(* Offset patterns: a list of offsets (data), a name and a repeat count.   *)
(***************************************************************************)
\* Offset frames.  A frame is named by its class when it is built with the
\* class's defaults; "slit" and "detector" are the InstrumentFrame objects
\* of keckODL.mosfire.  Anything else is no frame at all.
FrameClasses == {"OffsetFrame", "SkyFrame", "InstrumentFrame"}

type(frame) ==
    IF frame \in {"slit", "detector"} THEN "InstrumentFrame"
    ELSE IF frame \in FrameClasses THEN frame
    ELSE "str"

\* SkyFrame and InstrumentFrame are subclasses of OffsetFrame.
isinstance(frame, cls) ==
    \/ type(frame) = cls
    \/ cls = "OffsetFrame" /\ type(frame) \in FrameClasses

TelescopeOffset(dx, dy, posname, frame, guide) ==
    [dx |-> dx, dy |-> dy, dr |-> 0, relative |-> FALSE, posname |-> posname,
     frame |-> frame, guide |-> guide]

OffsetPattern(offsets, name, repeat) ==
    [data |-> offsets, name |-> name \o " x" \o ToString(repeat),
     repeat |-> repeat]

Stare(repeat) ==
    OffsetPattern(<<TelescopeOffset(0, 0, "base", "SkyFrame", TRUE)>>,
                  "Stare", repeat)

(***************************************************************************)
(* Detector configs built by the calibration methods.                      *)
(***************************************************************************)
DetectorConfig(exptime, nexp) ==
    [cls |-> "DetectorConfig", instrument |-> "None", detector |-> "",
     exptime |-> exptime, nexp |-> nexp, readoutmode |-> "None"]

CMOSDetectorConfig(exptime, nexp, overhead) ==
    [cls |-> "CMOSDetectorConfig", instrument |-> "GenericCMOS",
     detector |-> "", exptime |-> exptime, nexp |-> nexp,
     readoutmode |-> "fast", gain |-> 1, overhead |-> overhead,
     binning |-> "1x1"]

\* The pattern of keckODL.mosfire; offsets in hundredths of an arcsecond.
ABBA(repeat) ==
    OffsetPattern(<<TelescopeOffset(0, 125, "A", "slit", TRUE),
                    TelescopeOffset(0, -125, "B", "slit", TRUE),
                    TelescopeOffset(0, -125, "B", "slit", TRUE),
                    TelescopeOffset(0, 125, "A", "slit", TRUE)>>,
                  "ABBA (1.25 arcsec)", repeat)

\* The attributes the constructor sets or hands to its base class; the base
\* class it names, VisibleDetectorConfig, is in no file of the odl package.
KCWIblueDetectorConfig(exptime, dark) ==
    [cls |-> "KCWIblueDetectorConfig", instrument |-> "KCWI",
     detector |-> "blue", exptime |-> exptime, nexp |-> 1,
     readoutmode |-> 0, ampmode |-> 9, dark |-> dark, binning |-> "1x1"]

MOSFIREDetectorConfig(exptime, readoutmode) ==
    [cls |-> "MOSFIREDetectorConfig", instrument |-> "MOSFIRE",
     exptime |-> exptime, nexp |-> 1, readoutmode |-> readoutmode,
     coadds |-> 1]

NIRESSpecDetectorConfig(exptime, readoutmode) ==
    [cls |-> "NIRESSpecDetectorConfig", instrument |-> "NIRES Spec",
     exptime |-> exptime, nexp |-> 1, readoutmode |-> readoutmode,
     coadds |-> 1]

NIRESScamDetectorConfig(exptime, readoutmode) ==
    [cls |-> "NIRESScamDetectorConfig", instrument |-> "NIRES SCAM",
     exptime |-> exptime, nexp |-> 1, readoutmode |-> readoutmode,
     coadds |-> 1]

(***************************************************************************)
(* Instrument configs.                                                     *)
(***************************************************************************)
KCWIConfig(slicer) ==
    [cls |-> "KCWIConfig", slicer |-> slicer, bluegrating |-> "BH3",
     bluecwave |-> 4800, calmirror |-> "Sky", calobj |-> "Dark",
     arclamp |-> "None", domeflatlamp |-> "None",
     name |-> IF slicer = "FPC" THEN "FPC" ELSE slicer \o " BH3 4800 Angstrom"]

MOSFIREConfig(filter) ==
    [cls |-> "MOSFIREConfig", mode |-> "spectroscopy", filter |-> filter,
     mask |-> "None", arclamp |-> "None", domeflatlamp |-> "None",
     name |-> "None " \o filter \o "-spectroscopy"]

ConfigValues ==
    {KCWIConfig(s) : s \in Slicers} \cup {MOSFIREConfig(f) : f \in Filters}

(***************************************************************************)
(* Observing blocks.  cls is the Python class, blocktype the tag the       *)
(* class's constructor sets.                                               *)
(***************************************************************************)
BlockTypeOf(p, cls) ==
    IF p = "odl"
    THEN CASE cls = "ScienceBlock" -> "Science"
           [] cls = "TelluricBlock" -> "Telluric"
           [] cls = "StandardStarBlock" -> "StandardStar"
           [] cls = "CalibrationBlock" -> "Calibration"
           [] cls = "FocusBlock" -> "Focus"
           [] OTHER -> "Unknown"
    ELSE CASE cls = "ScienceBlock" -> "science"
           [] cls = "TelluricBlock" -> "telluric"
           [] cls = "StandardStarBlock" -> "standard"
           [] cls = "CalibrationBlock" -> "calibration"
           [] cls = "FocusBlock" -> "focus"
           [] OTHER -> "None"

Block(p, cls, target, pattern, instconfig, detconfig) ==
    [cls |-> cls, blocktype |-> BlockTypeOf(p, cls), target |-> target,
     pattern |-> pattern, instconfig |-> instconfig,
     detconfig |-> <<detconfig>>]

\* The class the calibration methods build their blocks with.
CalBlockClass(p) == IF p = "odl" THEN "CalibrationBlock" ELSE "ObservingBlock"

(***************************************************************************)
(* The calibration-variant methods.  Each takes the heap h and the         *)
(* identity c of the config it is called on, and gives the heap after the  *)
(* call together with the block it returns, or the exception it raises.    *)
(* deepcopy(self) allocates a new object holding self's fields.            *)
(***************************************************************************)
\* A copy that is no copy: the same object under the same identity.
deepcopy_alias(h, c) == [h |-> h, id |-> c]

deepcopy(h, c) == [h |-> Append(h, h[c]), id |-> Len(h) + 1]

Returned(h, blk) == [status |-> "ok", h |-> h, blk |-> blk]

Raised(h, exc) == [status |-> exc, h |-> h]

KCWIConfig_contbars(p, h, c) ==
    LET cp == deepcopy(h, c)
        ic1 == [cp.h[cp.id] EXCEPT !.calobj = "MedBarsA", !.arclamp = "CONT"]
        ic2 == [ic1 EXCEPT !.name = @ \o " arclamp=" \o ic1.arclamp]
        ic_for_contbars == [ic2 EXCEPT !.name = @ \o " calobj=" \o ic2.calobj]
        h2 == [cp.h EXCEPT ![cp.id] = ic_for_contbars]
        exptime == lamp_exptimes[ic_for_contbars.arclamp]
        dc_for_contbars == KCWIblueDetectorConfig(exptime, FALSE)
    IN  Returned(h2, Block(p, CalBlockClass(p), "None", Stare(1), cp.id,
                           dc_for_contbars))

KCWIConfig_arcs(p, h, c, lampname) ==
    LET cp == deepcopy(h, c)
        ic1 == [cp.h[cp.id] EXCEPT !.arclamp = lampname, !.calobj = "FlatA"]
        ic2 == [ic1 EXCEPT !.name = @ \o " arclamp=" \o ic1.arclamp]
        ic_for_arcs == [ic2 EXCEPT !.name = @ \o " calobj=" \o ic2.calobj]
        h2 == [cp.h EXCEPT ![cp.id] = ic_for_arcs]
    IN  IF lampname \notin DOMAIN lamp_exptimes
        THEN Raised(h2, "KeyError")
        ELSE Returned(h2, Block(p, CalBlockClass(p), "None", Stare(1), cp.id,
                        KCWIblueDetectorConfig(lamp_exptimes[lampname], FALSE)))

KCWIConfig_domeflats(p, h, c, off) ==
    LET cp == deepcopy(h, c)
        ic1 == [cp.h[cp.id] EXCEPT !.domeflatlamp = PyBool(~off)]
        ic_for_domeflats ==
            [ic1 EXCEPT !.name = @ \o " domeflatlamp=" \o PyBool(~off)]
        h2 == [cp.h EXCEPT ![cp.id] = ic_for_domeflats]
        dc_for_domeflats == KCWIblueDetectorConfig(100, FALSE)
    IN  Returned(h2, Block(p, CalBlockClass(p), "DomeFlats", Stare(3), cp.id,
                           dc_for_domeflats))

KCWIConfig_bias(p, h, c) ==
    LET cp == deepcopy(h, c)
        ic_for_bias == [cp.h[cp.id] EXCEPT !.name = @ \o " bias"]
        h2 == [cp.h EXCEPT ![cp.id] = ic_for_bias]
        dc_for_bias == KCWIblueDetectorConfig(0, TRUE)
    IN  Returned(h2, Block(p, CalBlockClass(p), "None", Stare(7), cp.id,
                           dc_for_bias))

\* IRDetectorConfig.__init__: the odl class tests a name that no scope
\* defines, so constructing any IR detector config raises NameError there;
\* the keckODL class sets its fields and returns.
IRDetectorConfig_init(p) == IF p = "odl" THEN "NameError" ELSE "ok"

MOSFIREConfig_arcs(p, h, c, lampname) ==
    LET cp == deepcopy(h, c)
        ic1 == [cp.h[cp.id] EXCEPT !.arclamp = lampname]
        ic_for_arcs == [ic1 EXCEPT !.name = @ \o " arclamp=" \o ic1.arclamp]
        h2 == [cp.h EXCEPT ![cp.id] = ic_for_arcs]
        dc_for_arcs == MOSFIREDetectorConfig(1, "CDS")
    IN  IF IRDetectorConfig_init(p) # "ok"
        THEN Raised(h2, IRDetectorConfig_init(p))
        ELSE Returned(h2, Block(p, CalBlockClass(p), "None", Stare(2), cp.id,
                                dc_for_arcs))

MOSFIREConfig_domeflats(p, h, c, off) ==
    LET cp == deepcopy(h, c)
        ic1 == [cp.h[cp.id] EXCEPT !.domeflatlamp = PyBool(~off)]
        lamp_str == IF off THEN "off" ELSE "on"
        ic_for_domeflats == [ic1 EXCEPT !.name = @ \o " domelamp=" \o lamp_str]
        h2 == [cp.h EXCEPT ![cp.id] = ic_for_domeflats]
    IN  IF h[c].filter \notin DOMAIN exptime_for_domeflats
        THEN Raised(h2, "KeyError")
        ELSE IF IRDetectorConfig_init(p) # "ok"
        THEN Raised(h2, IRDetectorConfig_init(p))
        ELSE Returned(h2, Block(p, CalBlockClass(p), "DomeFlats", Stare(7),
                        cp.id,
                        MOSFIREDetectorConfig(
                            exptime_for_domeflats[h[c].filter], "CDS")))

(***************************************************************************)
(* cals(): the calibration methods called one after the other, each block  *)
(* appended to the list built so far; an exception ends the call.          *)
(***************************************************************************)
NoBlocks(h) == [status |-> "ok", h |-> h, data |-> <<>>]

append(st, r) ==
    IF r.status = "ok"
    THEN [status |-> "ok", h |-> r.h, data |-> Append(st.data, r.blk)]
    ELSE [status |-> r.status, h |-> r.h, data |-> <<>>]

\* A cals() that leaves the internal calibrations out.
KCWIConfig_cals_flatsOnly(p, h, c, internal, domeflats) ==
    IF domeflats
    THEN append(NoBlocks(h), KCWIConfig_domeflats(p, h, c, FALSE))
    ELSE NoBlocks(h)

KCWIConfig_cals(p, h, c, internal, domeflats) ==
    LET cals == NoBlocks(h)
        c1 == append(cals, KCWIConfig_contbars(p, cals.h, c))
        c2 == append(c1, KCWIConfig_arcs(p, c1.h, c, "FEAR"))
        c3 == append(c2, KCWIConfig_arcs(p, c2.h, c, "THAR"))
        c4 == append(c3, KCWIConfig_arcs(p, c3.h, c, "CONT"))
        c5 == append(c4, KCWIConfig_bias(p, c4.h, c))
        ci == IF internal THEN c5 ELSE cals
    IN  IF domeflats
        THEN append(ci, KCWIConfig_domeflats(p, ci.h, c, FALSE))
        ELSE ci

MOSFIREConfig_cals(p, h, c) ==
    LET first == MOSFIREConfig_domeflats(p, h, c, FALSE)
        cals == append(NoBlocks(h), first)
        c1 == append(cals, MOSFIREConfig_domeflats(p, cals.h, c, TRUE))
        c2 == append(c1, MOSFIREConfig_arcs(p, c1.h, c, "Ne"))
        c3 == append(c2, MOSFIREConfig_arcs(p, c2.h, c, "Ar"))
    IN  IF first.status # "ok" THEN cals
        ELSE IF h[c].filter = "K" THEN c3 ELSE cals

\* instconfig.cals(), as ObservingBlockList.cals() calls it: no arguments.
InstrumentConfig_cals(p, h, c) ==
    IF h[c].cls = "KCWIConfig"
    THEN KCWIConfig_cals(p, h, c, TRUE, TRUE)
    ELSE MOSFIREConfig_cals(p, h, c)

(***************************************************************************)
(* ObservingBlockList.cals().  InstrumentConfig defines neither __eq__ nor *)
(* __hash__, so set(ics) holds one element per object identity, and its    *)
(* iteration order is not fixed by the language: order is one enumeration  *)
(* of that set.                                                            *)
(***************************************************************************)
isCalibrationBlock(OB) == OB.cls = "CalibrationBlock"

isFocusBlock(OB) == OB.cls = "FocusBlock"

ics(data) ==
    SelectSeq(data, LAMBDA OB : ~isCalibrationBlock(OB) /\ ~isFocusBlock(OB))

set(data) == {data[i].instconfig : i \in 1..Len(data)}

RECURSIVE Orders(_)
Orders(S) ==
    IF S = {} THEN {<<>>}
    ELSE UNION {{<<x>> \o o : o \in Orders(S \ {x})} : x \in S}

IsOrder(order, S) ==
    /\ Len(order) = Cardinality(S)
    /\ {order[i] : i \in 1..Len(order)} = S

RECURSIVE extendAll(_, _, _, _)
extendAll(p, calblocklist, order, k) ==
    IF k > Len(order) \/ calblocklist.status # "ok" THEN calblocklist
    ELSE LET r == InstrumentConfig_cals(p, calblocklist.h, order[k])
         IN  extendAll(p,
                 IF r.status = "ok"
                 THEN [status |-> "ok", h |-> r.h,
                       data |-> calblocklist.data \o r.data]
                 ELSE [status |-> r.status, h |-> r.h, data |-> <<>>],
                 order, k + 1)

ObservingBlockList_cals(p, h, data, order) ==
    extendAll(p, NoBlocks(h), order, 1)

(***************************************************************************)
(* The caller.  It builds blocks (each with a new instrument config or     *)
(* with one an earlier block already carries), calls a calibration method  *)
(* of one of its configs, calls cals() of the list, or takes the list an   *)
(* instrument config's cals() returned as the list under study.  Objects   *)
(* of an earlier return value that the caller did not keep are dropped.    *)
(***************************************************************************)
NoObject == [kind |-> "none"]

NoResult == [op |-> "none", status |-> "none", warnings |-> {}, out |-> <<>>]

NoEstimate == [op |-> "none", self |-> 0, status |-> "none", shutter |-> 0,
               wall |-> 0]

NoReturn == [op |-> "none", self |-> 0, args |-> <<>>, status |-> "none",
             data |-> <<>>]

held == SubSeq(heap, 1, ncfg)

UserBlock(cls, c) ==
    Block(pkg, cls, "Target", Stare(1), c, DetectorConfig(1, 1))

InitCals ==
    /\ pkg \in Packages
    /\ heap = <<>>
    /\ ncfg = 0
    /\ obl = <<>>
    /\ adopted = FALSE
    /\ ret = NoReturn
    /\ tdata = <<>>
    /\ est = NoEstimate
    /\ obj = NoObject
    /\ res = NoResult
    /\ file = "absent"

AppendBlockNewConfig(cls, v) ==
    /\ ~adopted /\ ret.op = "none" /\ Len(obl) < MaxBlocks
    /\ heap' = Append(heap, v)
    /\ ncfg' = ncfg + 1
    /\ obl' = Append(obl, UserBlock(cls, ncfg + 1))
    /\ UNCHANGED <<pkg, adopted, ret, timevars, objvars>>

AppendBlockSameConfig(cls, c) ==
    /\ ~adopted /\ ret.op = "none" /\ Len(obl) < MaxBlocks
    /\ c \in 1..ncfg
    /\ obl' = Append(obl, UserBlock(cls, c))
    /\ UNCHANGED <<pkg, heap, ncfg, adopted, ret, timevars, objvars>>

\* The caller's view of a method that returns one block.
ReturnBlock(op, c, args, r) ==
    /\ heap' = IF r.status = "ok" THEN r.h ELSE SubSeq(r.h, 1, ncfg)
    /\ ret' = [op |-> op, self |-> c, args |-> args, status |-> r.status,
               data |-> IF r.status = "ok" THEN <<r.blk>> ELSE <<>>]
    /\ UNCHANGED <<pkg, ncfg, obl, adopted, timevars, objvars>>

\* The caller's view of a method that returns a list of blocks.
ReturnList(op, c, args, r) ==
    /\ heap' = IF r.status = "ok" THEN r.h ELSE SubSeq(r.h, 1, ncfg)
    /\ ret' = [op |-> op, self |-> c, args |-> args, status |-> r.status,
               data |-> r.data]
    /\ UNCHANGED <<pkg, ncfg, obl, adopted, timevars, objvars>>

Direct(c) == ~adopted /\ Len(obl) <= MaxDirect /\ c \in 1..ncfg

CallContbars(c) ==
    /\ Direct(c) /\ heap[c].cls = "KCWIConfig"
    /\ ReturnBlock("contbars", c, <<>>, KCWIConfig_contbars(pkg, held, c))

CallArcs(c, lampname) ==
    /\ Direct(c)
    /\ ReturnBlock("arcs", c, <<lampname>>,
                   IF heap[c].cls = "KCWIConfig"
                   THEN KCWIConfig_arcs(pkg, held, c, lampname)
                   ELSE MOSFIREConfig_arcs(pkg, held, c, lampname))

CallDomeflats(c, off) ==
    /\ Direct(c)
    /\ ReturnBlock("domeflats", c, <<off>>,
                   IF heap[c].cls = "KCWIConfig"
                   THEN KCWIConfig_domeflats(pkg, held, c, off)
                   ELSE MOSFIREConfig_domeflats(pkg, held, c, off))

CallBias(c) ==
    /\ Direct(c) /\ heap[c].cls = "KCWIConfig"
    /\ ReturnBlock("bias", c, <<>>, KCWIConfig_bias(pkg, held, c))

CallKCWICals(c, internal, domeflats) ==
    /\ Direct(c) /\ heap[c].cls = "KCWIConfig"
    /\ ReturnList("cals", c, <<internal, domeflats>>,
                  KCWIConfig_cals(pkg, held, c, internal, domeflats))

CallMOSFIRECals(c) ==
    /\ Direct(c) /\ heap[c].cls = "MOSFIREConfig"
    /\ ReturnList("cals", c, <<>>, MOSFIREConfig_cals(pkg, held, c))

\* A second call in a row starts from the same list and the same configs as
\* the first, so only the first is taken.
CallListCals(order) ==
    /\ ret.op # "list.cals"
    /\ IsOrder(order, set(ics(obl)))
    /\ ReturnList("list.cals", 0, <<>>,
                  ObservingBlockList_cals(pkg, held, obl, order))

\* The list returned by cals() becomes the list under study; the caller
\* keeps nothing else.
Adopt ==
    /\ ~adopted /\ ret.op = "cals" /\ ret.status = "ok"
    /\ heap' = SubSeq(heap, ncfg + 1, Len(heap))
    /\ ncfg' = Len(heap) - ncfg
    /\ obl' = [i \in 1..Len(ret.data) |->
                  [ret.data[i] EXCEPT !.instconfig = @ - ncfg]]
    /\ adopted' = TRUE
    /\ ret' = NoReturn
    /\ UNCHANGED <<pkg, timevars, objvars>>

NextCals ==
    \/ \E cls \in BlockClasses, v \in ConfigValues : AppendBlockNewConfig(cls, v)
    \/ \E cls \in BlockClasses, c \in 1..ncfg : AppendBlockSameConfig(cls, c)
    \/ \E c \in 1..ncfg : CallContbars(c)
    \/ \E c \in 1..ncfg, lampname \in LampNames : CallArcs(c, lampname)
    \/ \E c \in 1..ncfg, off \in BOOLEAN : CallDomeflats(c, off)
    \/ \E c \in 1..ncfg : CallBias(c)
    \/ \E c \in 1..ncfg, internal \in BOOLEAN, domeflats \in BOOLEAN :
          CallKCWICals(c, internal, domeflats)
    \/ \E c \in 1..ncfg : CallMOSFIRECals(c)
    \/ \E order \in Orders(set(ics(obl))) : CallListCals(order)
    \/ Adopt

SpecCals == InitCals /\ [][NextCals]_vars

(***************************************************************************)
(* Time estimates.  A detector config estimates the duration of its own    *)
(* exposures; a block takes the largest estimate among its detector        *)
(* configs and multiplies by the number of pattern positions and by the    *)
(* pattern's repeat; a list adds up its blocks.                            *)
(***************************************************************************)
Repeats == {1, 2}

DetectorValues ==
    {DetectorConfig(10, 1), DetectorConfig(5, 1), DetectorConfig(5, 2),
     CMOSDetectorConfig(5, 2, 2)}

Patterns == {Stare(r) : r \in Repeats} \cup {ABBA(r) : r \in Repeats}

DetectorLists ==
    UNION {[1..n -> DetectorValues] : n \in 1..MaxDet}

DetectorConfig_estimate_duration(dc) == dc.exptime

CMOSDetectorConfig_estimate_duration(dc) ==
    LET total_time == dc.overhead + dc.exptime
    IN  total_time * dc.nexp

\* CCDDetectorConfig.erase_time and KCWIblueDetectorConfig.erase_time
erase_time(dc) == 0

\* A table with no entry for the amplifier mode 10.
KCWIblue_readout_time_nine(dc) ==
    LET rspeed == CASE dc.readoutmode = 0 -> "slow"
                    [] dc.readoutmode = 1 -> "fast"
        namps_str == CASE dc.ampmode = 0 -> "quad"
                       [] dc.ampmode \in 1..8 -> "single"
                       [] dc.ampmode = 9 -> "dual"
                       [] OTHER -> "none"
        read_times ==
            [slow |-> [single |-> [b1x1 |-> 337, b2x2 |-> 106],
                       dual |-> [b1x1 |-> 170, b2x2 |-> 53],
                       quad |-> [b1x1 |-> 85, b2x2 |-> 27],
                       none |-> [b1x1 |-> 0, b2x2 |-> 0]],
             fast |-> [single |-> [b1x1 |-> 75, b2x2 |-> 25],
                       dual |-> [b1x1 |-> 38, b2x2 |-> 13],
                       quad |-> [b1x1 |-> 19, b2x2 |-> 7],
                       none |-> [b1x1 |-> 0, b2x2 |-> 0]]]
    IN  read_times[rspeed][namps_str]["b" \o dc.binning]

\* KCWIblueDetectorConfig.readout_time: the speed from readoutmode, the
\* number of amplifiers from the first word of the amplifier mode's name,
\* then the table; the binning 1x1 is the key b1x1 here.
KCWIblue_readout_time(dc) ==
    LET rspeed == CASE dc.readoutmode = 0 -> "slow"
                    [] dc.readoutmode = 1 -> "fast"
        namps_str == CASE dc.ampmode = 0 -> "quad"
                       [] dc.ampmode \in 1..8 -> "single"
                       [] dc.ampmode \in {9, 10} -> "dual"
        read_times ==
            [slow |-> [single |-> [b1x1 |-> 337, b2x2 |-> 106],
                       dual |-> [b1x1 |-> 170, b2x2 |-> 53],
                       quad |-> [b1x1 |-> 85, b2x2 |-> 27]],
             fast |-> [single |-> [b1x1 |-> 75, b2x2 |-> 25],
                       dual |-> [b1x1 |-> 38, b2x2 |-> 13],
                       quad |-> [b1x1 |-> 19, b2x2 |-> 7]]]
    IN  read_times[rspeed][namps_str]["b" \o dc.binning]

readout_time(dc) ==
    IF dc.cls = "KCWIblueDetectorConfig" THEN KCWIblue_readout_time(dc)
    ELSE 0

other_overhead(dc) == 0

CCDDetectorConfig_estimate_duration(dc) ==
    LET total_time == erase_time(dc) + dc.exptime + readout_time(dc)
                      + other_overhead(dc)
    IN  total_time * dc.nexp

\* The estimate of the base class of the KCWI detector configs: the sum of
\* erase time, exposure time, readout time and overhead, for each exposure.
VisibleDetectorConfig_estimate_duration(dc) ==
    CCDDetectorConfig_estimate_duration(dc)

estimate_duration(dc) ==
    CASE dc.cls = "CMOSDetectorConfig" ->
            CMOSDetectorConfig_estimate_duration(dc)
      [] dc.cls = "CCDDetectorConfig" ->
            CCDDetectorConfig_estimate_duration(dc)
      [] dc.cls = "KCWIblueDetectorConfig" ->
            VisibleDetectorConfig_estimate_duration(dc)
      [] OTHER -> DetectorConfig_estimate_duration(dc)

\* The method keckODL's blocks call on their detector configs.
estimate_clock_time(dc) == estimate_duration(dc)

sum(t) == LET RECURSIVE s(_)
              s(k) == IF k = 0 THEN 0 ELSE t[k] + s(k - 1)
          IN  s(Len(t))

max(t) == CHOOSE m \in {t[i] : i \in 1..Len(t)} :
              \A i \in 1..Len(t) : t[i] <= m

len(pattern) == Len(pattern.data)

\* An estimate that adds the detector configs' durations up.
ObservingBlock_estimate_duration_sum(p, OB) ==
    IF p # "odl" THEN [status |-> "AttributeError", shutter |-> 0, wall |-> 0]
    ELSE [status |-> "ok", shutter |-> 0,
          wall |-> OB.pattern.repeat * len(OB.pattern) *
                   sum([i \in 1..Len(OB.detconfig) |->
                           estimate_duration(OB.detconfig[i])])]

\* odl only: keckODL's ObservingBlock has no estimate_duration.
ObservingBlock_estimate_duration(p, OB) ==
    IF p # "odl" THEN [status |-> "AttributeError", shutter |-> 0, wall |-> 0]
    ELSE LET t == [i \in 1..Len(OB.detconfig) |->
                      estimate_duration(OB.detconfig[i])]
             detector_time == max(t)
             duration == OB.pattern.repeat * len(OB.pattern) * detector_time
         IN  [status |-> "ok", shutter |-> 0, wall |-> duration]

\* keckODL only: odl's ObservingBlock has no estimate_time.
ObservingBlock_estimate_time(p, OB) ==
    IF p # "keckODL"
    THEN [status |-> "AttributeError", shutter |-> 0, wall |-> 0]
    ELSE LET t == [i \in 1..Len(OB.detconfig) |->
                      estimate_clock_time(OB.detconfig[i])]
             detector_time == max(t)
             e == [i \in 1..Len(OB.detconfig) |->
                      OB.detconfig[i].exptime * OB.detconfig[i].nexp]
             exposure_time == max(e)
         IN  [status |-> "ok",
              shutter |-> OB.pattern.repeat * len(OB.pattern) * exposure_time,
              wall |-> OB.pattern.repeat * len(OB.pattern) * detector_time]

SequenceElement_estimate_time(pattern, detconfig, repeat) ==
    [status |-> "ok",
     shutter |-> len(pattern) * detconfig.exptime * repeat,
     wall |-> len(pattern) * detconfig.exptime * repeat]

RECURSIVE ObservingBlockList_estimate_time_from(_, _, _, _)
ObservingBlockList_estimate_time_from(p, data, k, estimate) ==
    IF k > Len(data) THEN estimate
    ELSE LET s == ObservingBlock_estimate_time(p, data[k])
         IN  IF s.status # "ok" THEN s
             ELSE ObservingBlockList_estimate_time_from(p, data, k + 1,
                      [status |-> "ok",
                       shutter |-> estimate.shutter + s.shutter,
                       wall |-> estimate.wall + s.wall])

\* The two totals the method prints.
ObservingBlockList_estimate_time(p, data) ==
    ObservingBlockList_estimate_time_from(p, data, 1,
        [status |-> "ok", shutter |-> 0, wall |-> 0])

\* A list given as detconfig is kept as it is.
TimeBlock(pattern, detconfigs) ==
    [Block(pkg, "ScienceBlock", "Target", pattern, 0, detconfigs[1])
        EXCEPT !.detconfig = detconfigs]

DetTotal(data) == sum([i \in 1..Len(data) |-> Len(data[i].detconfig)])

InitTime ==
    /\ pkg \in Packages
    /\ heap = <<>>
    /\ ncfg = 0
    /\ obl = <<>>
    /\ adopted = FALSE
    /\ ret = NoReturn
    /\ tdata = <<>>
    /\ est = NoEstimate
    /\ obj = NoObject
    /\ res = NoResult
    /\ file = "absent"

AppendTimeBlock(pattern, detconfigs) ==
    /\ est.op = "none"
    /\ Len(tdata) < MaxTimeBlocks
    /\ DetTotal(tdata) + Len(detconfigs) <= MaxDetTotal
    /\ tdata' = Append(tdata, TimeBlock(pattern, detconfigs))
    /\ UNCHANGED <<pkg, calvars, est, objvars>>

Estimated(op, i, r) ==
    /\ est' = [op |-> op, self |-> i, status |-> r.status,
               shutter |-> r.shutter, wall |-> r.wall]
    /\ UNCHANGED <<pkg, calvars, tdata, objvars>>

DirectBlock(i) == Len(tdata) <= MaxDirect /\ i \in 1..Len(tdata)

CallEstimateDuration(i) ==
    /\ DirectBlock(i)
    /\ Estimated("estimate_duration", i,
                 ObservingBlock_estimate_duration(pkg, tdata[i]))

CallEstimateTime(i) ==
    /\ DirectBlock(i)
    /\ Estimated("estimate_time", i,
                 ObservingBlock_estimate_time(pkg, tdata[i]))

\* A sequence element made of the block's pattern and first detector config.
CallElementEstimateTime(i, repeat) ==
    /\ DirectBlock(i) /\ pkg = "keckODL"
    /\ Estimated("element.estimate_time", i,
                 SequenceElement_estimate_time(tdata[i].pattern,
                                               tdata[i].detconfig[1], repeat))

CallListEstimateTime ==
    Estimated("list.estimate_time", 0,
              ObservingBlockList_estimate_time(pkg, tdata))

NextTime ==
    \/ \E pattern \in Patterns, detconfigs \in DetectorLists :
          AppendTimeBlock(pattern, detconfigs)
    \/ \E i \in 1..Len(tdata) : CallEstimateDuration(i)
    \/ \E i \in 1..Len(tdata) : CallEstimateTime(i)
    \/ \E i \in 1..Len(tdata), repeat \in Repeats :
          CallElementEstimateTime(i, repeat)
    \/ CallListEstimateTime

SpecTime == InitTime /\ [][NextTime]_vars

(***************************************************************************)
(* Reading a return value: the blocks with their instrument configs looked *)
(* up, and what kind of calibration a block is, told from its config and   *)
(* its detector config.                                                    *)
(***************************************************************************)
DerefBlock(h, b) == [b EXCEPT !.instconfig = h[b.instconfig]]

Deref(h, data) == [i \in 1..Len(data) |-> DerefBlock(h, data[i])]

BlockKind(h, b) ==
    LET ic == h[b.instconfig]
        dc == b.detconfig[1]
    IN  IF ic.cls = "KCWIConfig"
        THEN CASE ic.calobj = "MedBarsA" -> "contbars"
               [] ic.calobj = "FlatA" -> "arc " \o ic.arclamp
               [] ic.domeflatlamp # "None" -> "domeflats " \o ic.domeflatlamp
               [] dc.dark -> "bias"
               [] OTHER -> "science"
        ELSE CASE ic.arclamp # "None" -> "arc " \o ic.arclamp
               [] ic.domeflatlamp # "None" -> "domeflats " \o ic.domeflatlamp
               [] OTHER -> "science"

Kinds(h, data) == [i \in 1..Len(data) |-> BlockKind(h, data[i])]

KCWICalsReturned(internal, domeflats) ==
    /\ ret.op = "cals" /\ ret.status = "ok"
    /\ heap[ret.self].cls = "KCWIConfig"
    /\ ret.args = <<internal, domeflats>>

MOSFIRECalsCalled ==
    /\ ret.op = "cals"
    /\ heap[ret.self].cls = "MOSFIREConfig"

ListCalsReturned == ret.op = "list.cals" /\ ret.status = "ok"

\* C1: ObservingBlockList.cals() de-duplicates instrument configs by value:
\* when several non-calibration, non-focus blocks carry configs that are
\* distinct objects with equal fields, that config's cals() output is in the
\* returned list once, so no two returned blocks are equal in every field.
C1_DedupByValue ==
    (ListCalsReturned /\ ~adopted) =>
        \A i, j \in 1..Len(ret.data) :
            DerefBlock(heap, ret.data[i]) = DerefBlock(heap, ret.data[j])
                => i = j

\* C2: ObservingBlockList.cals() applied to a list that consists only of
\* blocks returned by an instrument config's cals() returns an empty list.
C2_NoRecursiveCals ==
    (ListCalsReturned /\ adopted) => ret.data = <<>>

BlockShutter(OB) ==
    OB.pattern.repeat * Len(OB.pattern.data) *
        max([i \in 1..Len(OB.detconfig) |->
                OB.detconfig[i].exptime * OB.detconfig[i].nexp])

BlockWall(OB) ==
    OB.pattern.repeat * Len(OB.pattern.data) *
        max([i \in 1..Len(OB.detconfig) |-> estimate_duration(OB.detconfig[i])])

BlockEstimated(op) ==
    /\ est.op = op /\ est.status = "ok"
    /\ est.self \in 1..Len(tdata)

\* C3: the wall-clock estimate of a block with one or more detector configs
\* (estimate_duration(), and the wall clock time of estimate_time()) is
\* pattern.repeat * len(pattern) * M, where M is the largest of the detector
\* configs' duration estimates, not their sum.
C3_WallClockIsMax ==
    (BlockEstimated("estimate_duration") \/ BlockEstimated("estimate_time")) =>
        LET OB == tdata[est.self]
            n == Len(OB.detconfig)
            d == [i \in 1..n |->
                     IF est.op = "estimate_time"
                     THEN estimate_clock_time(OB.detconfig[i])
                     ELSE estimate_duration(OB.detconfig[i])]
        IN  \E k \in 1..n :
                LET M == d[k]
                IN  /\ \A j \in 1..n : d[j] <= M
                    /\ est.wall = OB.pattern.repeat * Len(OB.pattern.data) * M

C3_Witness ==
    /\ BlockEstimated("estimate_duration")
    /\ tdata[est.self].pattern = ABBA(2)
    /\ tdata[est.self].detconfig =
          <<DetectorConfig(10, 1), CMOSDetectorConfig(5, 2, 2)>>
    /\ est.wall = 112

C5_ListTotals ==
    est.op = "list.estimate_time" =>
        /\ est.status = "ok"
        /\ est.shutter = sum([i \in 1..Len(tdata) |-> BlockShutter(tdata[i])])
        /\ est.wall = sum([i \in 1..Len(tdata) |-> BlockWall(tdata[i])])
        /\ tdata = <<TimeBlock(Stare(2), <<DetectorConfig(10, 1)>>),
                     TimeBlock(ABBA(1), <<DetectorConfig(5, 1)>>)>>
              => est.shutter = 40

C7_KCWICalsRepeats ==
    KCWICalsReturned(TRUE, TRUE) =>
        /\ ret.data[4].pattern.repeat = 6
        /\ ret.data[5].pattern.repeat = 7
        /\ ret.data[6].pattern.repeat = 3

\* C8: in every list KCWIConfig.cals() returns, each arc block's exposure
\* time is the lamp-table entry of the arc lamp on that block's instrument
\* config (FEAR 30, THAR 45, CONT 6) and the contbars block uses the CONT
\* entry (6); arcs() with a lamp name outside the table fails and produces
\* no block.
TableExptime(lamp, exptime) ==
    \/ lamp = "FEAR" /\ exptime = 30
    \/ lamp = "THAR" /\ exptime = 45
    \/ lamp = "CONT" /\ exptime = 6

C8_ArcExptimes ==
    /\ (ret.op = "cals" /\ ret.status = "ok"
          /\ heap[ret.self].cls = "KCWIConfig") =>
          \A i \in 1..Len(ret.data) :
              LET ic == heap[ret.data[i].instconfig]
                  dc == ret.data[i].detconfig[1]
              IN  /\ ic.calobj = "FlatA" => TableExptime(ic.arclamp, dc.exptime)
                  /\ ic.calobj = "MedBarsA" =>
                        ic.arclamp = "CONT" /\ dc.exptime = 6
    /\ (ret.op = "arcs" /\ heap[ret.self].cls = "KCWIConfig") =>
          IF ret.args[1] \in {"FEAR", "THAR", "CONT"}
          THEN /\ ret.status = "ok"
               /\ heap[ret.data[1].instconfig].arclamp = ret.args[1]
               /\ TableExptime(ret.args[1], ret.data[1].detconfig[1].exptime)
          ELSE ret.status = "KeyError" /\ ret.data = <<>>

C8_Witness ==
    /\ KCWICalsReturned(TRUE, FALSE)
    /\ heap[ret.data[3].instconfig].arclamp = "THAR"
    /\ ret.data[3].detconfig[1].exptime = 45
    /\ BlockKind(heap, ret.data[1]) = "contbars"

\* C9: MOSFIREConfig.cals() starts with a lamp-on dome-flat block for every
\* filter, its exposure time the table entry of the filter (Y 17, J/H/K 11);
\* for filter K the list is exactly lamp-on flats, lamp-off flats, Ne arc,
\* Ar arc, and for any other filter it has exactly one block.
C9_MOSFIRECals ==
    MOSFIRECalsCalled =>
        /\ ret.status = "ok"
        /\ Len(ret.data) >= 1
        /\ BlockKind(heap, ret.data[1]) = "domeflats True"
        /\ ret.data[1].detconfig[1].exptime =
              (IF heap[ret.self].filter = "Y" THEN 17 ELSE 11)
        /\ IF heap[ret.self].filter = "K"
           THEN Kinds(heap, ret.data) =
                    <<"domeflats True", "domeflats False", "arc Ne", "arc Ar">>
           ELSE Len(ret.data) = 1

\* C10: a calibration-variant method leaves every config the caller holds,
\* the one it is called on included, unchanged in every field; the
\* instrument config of each returned block is an object other than these;
\* and a call repeated on the same config with the same arguments returns
\* what the call before it returned.
CalOps == {"contbars", "arcs", "domeflats", "bias", "cals"}

C10_CopyNotMutate ==
    [][ret'.op \in CalOps =>
          /\ SubSeq(heap', 1, ncfg') = held
          /\ \A i \in 1..Len(ret'.data) :
                /\ ret'.data[i].instconfig # ret'.self
                /\ ret'.data[i].instconfig > ncfg'
          /\ (ret.op = ret'.op /\ ret.self = ret'.self /\ ret.args = ret'.args)
                => /\ ret'.status = ret.status
                   /\ Deref(heap', ret'.data) = Deref(heap, ret.data)]_vars

C10_Witness ==
    /\ ret.op = "domeflats" /\ ret.status = "ok"
    /\ heap[ret.self].domeflatlamp = "None"
    /\ heap[ret.data[1].instconfig].domeflatlamp = "False"
    /\ heap[ret.data[1].instconfig].name # heap[ret.self].name
    /\ ret.data[1].instconfig # ret.self

(***************************************************************************)
(* One object at a time: it is constructed, changed, validated, written.   *)
(* `res' keeps the name of the last operation and how it ended.            *)
(***************************************************************************)
InitObject ==
    /\ pkg \in Packages
    /\ heap = <<>>
    /\ ncfg = 0
    /\ obl = <<>>
    /\ adopted = FALSE
    /\ ret = NoReturn
    /\ tdata = <<>>
    /\ est = NoEstimate
    /\ obj = NoObject
    /\ res = NoResult
    /\ file \in {"absent", "old"}

\* Offsets a pattern holds, the most.
MaxOffsets == 3

FrameInputs == FrameClasses \cup {"slit"}

OffsetInputs == {TelescopeOffset(0, 0, "p", f, TRUE) : f \in FrameInputs}

RepeatInputs == {-1, 0, 1, 2}

OffsetLists == UNION {[1..n -> OffsetInputs] : n \in 0..MaxOffsets}

\* TelescopeOffset.validate, which the constructor calls last.
TelescopeOffset_validate(frame) ==
    IF ~isinstance(frame, "OffsetFrame") THEN "OffsetError" ELSE "ok"

\* InstrumentFrame.validate, which the constructor calls last; offsetangle
\* in degrees.
InstrumentFrame_validate(offsetangle) ==
    IF offsetangle # 0 THEN "NotImplementedError" ELSE "ok"

\* odl tests for an empty list; keckODL reads data[0] of any list.
OffsetPattern_validate(p, P) ==
    IF Len(P.data) = 0
    THEN (IF p = "odl" THEN "ok" ELSE "IndexError")
    ELSE LET oframe == type(P.data[1].frame)
         IN  IF \E i \in 1..Len(P.data) : ~isinstance(P.data[i].frame, oframe)
             THEN "OffsetError"
             ELSE "ok"

\* A constructor that stores its arguments and validates nothing.
OffsetPattern_init_lenient(p, offsets, name, repeat) ==
    [status |-> "ok", v |-> OffsetPattern(offsets, name, repeat)]

OffsetPattern_init(p, offsets, name, repeat) ==
    LET P == OffsetPattern(offsets, name, repeat)
    IN  [status |-> OffsetPattern_validate(p, P), v |-> P]

\* An operation ended with `status'; warnings are those it issued, out
\* is what it returned.
DoneWith(op, status, warnings, out) ==
    /\ res' = [op |-> op, status |-> status, warnings |-> warnings,
               out |-> out]
    /\ UNCHANGED <<pkg, calvars, timevars>>

Done(op, status) == DoneWith(op, status, {}, <<>>)

IsPattern == obj.kind = "OffsetPattern"

\* Nothing has been constructed or tried yet.
Fresh == obj.kind = "none" /\ res.op = "none"

NewOffsetPattern(offsets, repeat) ==
    /\ Fresh
    /\ LET r == OffsetPattern_init(pkg, offsets, "P", repeat)
       IN  /\ obj' = IF r.status = "ok"
                     THEN [kind |-> "OffsetPattern", v |-> r.v]
                     ELSE obj
           /\ DoneWith("OffsetPattern", r.status, {}, offsets)
    /\ UNCHANGED file

NewStare(repeat) ==
    /\ Fresh
    /\ obj' = [kind |-> "OffsetPattern", v |-> Stare(repeat)]
    /\ Done("Stare", "ok")
    /\ UNCHANGED file

NewABBA(repeat) ==
    /\ Fresh
    /\ obj' = [kind |-> "OffsetPattern", v |-> ABBA(repeat)]
    /\ Done("ABBA", "ok")
    /\ UNCHANGED file

NewTelescopeOffset(frame) ==
    /\ Fresh
    /\ DoneWith("TelescopeOffset", TelescopeOffset_validate(frame), {}, frame)
    /\ UNCHANGED <<obj, file>>

NewInstrumentFrame(offsetangle) ==
    /\ Fresh
    /\ DoneWith("InstrumentFrame", InstrumentFrame_validate(offsetangle), {},
                offsetangle)
    /\ UNCHANGED <<obj, file>>

\* The list operations an OffsetPattern has from UserList; none validates.
SetData(op, data) ==
    /\ obj' = [obj EXCEPT !.v.data = data]
    /\ Done(op, "ok")
    /\ UNCHANGED file

PatternAppend(item) ==
    /\ IsPattern /\ Len(obj.v.data) < MaxOffsets
    /\ SetData("append", Append(obj.v.data, item))

PatternExtend(other) ==
    /\ IsPattern /\ Len(obj.v.data) + Len(other) <= MaxOffsets
    /\ other # <<>>
    /\ SetData("extend", obj.v.data \o other)

PatternInsert(i, item) ==
    /\ IsPattern /\ Len(obj.v.data) < MaxOffsets
    /\ i \in 1..(Len(obj.v.data) + 1)
    /\ SetData("insert", SubSeq(obj.v.data, 1, i - 1) \o <<item>>
                             \o SubSeq(obj.v.data, i, Len(obj.v.data)))

PatternSetItem(i, item) ==
    /\ IsPattern
    /\ i \in 1..Len(obj.v.data)
    /\ SetData("setitem", [obj.v.data EXCEPT ![i] = item])

(***************************************************************************)
(* Readout modes of the IR detector configs.  A readout mode is a string;  *)
(* validate() parses it with re.match: an optional M, then CDS, then the   *)
(* digits that follow, matched at the start of the string; what comes      *)
(* after the digits is not looked at.                                      *)
(***************************************************************************)
ReadoutModes ==
    {"CDS", "MCDS", "MCDS0", "MCDS1", "MCDS16", "MCDS17", "MCDS32", "MCDS33",
     "CDSxyz", "MCDS4x", "XCDS", "CDS5"}

\* The characters of a readout mode.
chars(str) ==
    CASE str = "CDS" -> <<"C", "D", "S">>
      [] str = "MCDS" -> <<"M", "C", "D", "S">>
      [] str = "MCDS0" -> <<"M", "C", "D", "S", "0">>
      [] str = "MCDS1" -> <<"M", "C", "D", "S", "1">>
      [] str = "MCDS16" -> <<"M", "C", "D", "S", "1", "6">>
      [] str = "MCDS17" -> <<"M", "C", "D", "S", "1", "7">>
      [] str = "MCDS32" -> <<"M", "C", "D", "S", "3", "2">>
      [] str = "MCDS33" -> <<"M", "C", "D", "S", "3", "3">>
      [] str = "CDSxyz" -> <<"C", "D", "S", "x", "y", "z">>
      [] str = "MCDS4x" -> <<"M", "C", "D", "S", "4", "x">>
      [] str = "XCDS" -> <<"X", "C", "D", "S">>
      [] str = "CDS5" -> <<"C", "D", "S", "5">>
      [] OTHER -> <<>>

DigitValue ==
    [c \in {"0", "1", "2", "3", "4", "5", "6", "7", "8", "9"} |->
        CASE c = "0" -> 0 [] c = "1" -> 1 [] c = "2" -> 2 [] c = "3" -> 3
          [] c = "4" -> 4 [] c = "5" -> 5 [] c = "6" -> 6 [] c = "7" -> 7
          [] c = "8" -> 8 [] c = "9" -> 9]

\* The longest run of digits the sequence starts with.
RECURSIVE digits(_)
digits(cs) ==
    IF cs = <<>> \/ Head(cs) \notin DOMAIN DigitValue
    THEN <<>>
    ELSE <<Head(cs)>> \o digits(Tail(cs))

\* int() of a non-empty run of digits.
RECURSIVE int(_)
int(ds) ==
    IF ds = <<>> THEN 0
    ELSE 10 * int(SubSeq(ds, 1, Len(ds) - 1)) + DigitValue[ds[Len(ds)]]

\* re.match of the pattern on str: None, or the two groups.
re_match(str) ==
    LET cs == chars(str)
        m == IF cs # <<>> /\ Head(cs) = "M" THEN 1 ELSE 0
    IN  IF Len(cs) >= m + 3 /\ SubSeq(cs, m + 1, m + 3) = <<"C", "D", "S">>
        THEN [none |-> FALSE, group1 |-> SubSeq(cs, 1, m),
              group2 |-> digits(SubSeq(cs, m + 4, Len(cs)))]
        ELSE [none |-> TRUE]

\* `raise DetectorConfigError(...)' in a module that never imports the name
\* DetectorConfigError: evaluating the name raises NameError.
raise_DetectorConfigError == "NameError"

\* The largest n of MCDSn that MOSFIREDetectorConfig.validate lets pass.
MOSFIRE_nreads(p) == IF p = "odl" THEN 16 ELSE 32

NIRES_nreads == 32

\* int(group(2)) and the comparison with the largest n.
check_nreads(group2, most) ==
    IF group2 = <<>> THEN "ValueError"
    ELSE IF int(group2) > most THEN raise_DetectorConfigError
    ELSE "ok"

MOSFIREDetectorConfig_validate(p, dc) ==
    LET parse_readoutmode == re_match(dc.readoutmode)
    IN  IF parse_readoutmode.none THEN raise_DetectorConfigError
        ELSE check_nreads(parse_readoutmode.group2, MOSFIRE_nreads(p))

NIRESSpecDetectorConfig_validate(dc) ==
    LET parse_readmode == re_match(dc.readoutmode)
    IN  IF parse_readmode.none THEN raise_DetectorConfigError
        ELSE check_nreads(parse_readmode.group2, NIRES_nreads)

NIRESScamDetectorConfig_validate(dc) ==
    LET parse_readmode == re_match(dc.readoutmode)
    IN  IF parse_readmode.none THEN raise_DetectorConfigError
        ELSE IF parse_readmode.group1 = <<>> /\ parse_readmode.group2 = <<>>
        THEN "ok"
        ELSE check_nreads(parse_readmode.group2, NIRES_nreads)

IRClasses ==
    {"MOSFIREDetectorConfig", "NIRESSpecDetectorConfig",
     "NIRESScamDetectorConfig"}

DetectorConfig_validate(p, dc) ==
    CASE dc.cls = "MOSFIREDetectorConfig" -> MOSFIREDetectorConfig_validate(p, dc)
      [] dc.cls = "NIRESSpecDetectorConfig" -> NIRESSpecDetectorConfig_validate(dc)
      [] dc.cls = "NIRESScamDetectorConfig" -> NIRESScamDetectorConfig_validate(dc)
      [] OTHER -> "ok"

IsDetectorConfig == obj.kind = "DetectorConfig"

IRDetectorConfigOf(cls, readoutmode) ==
    CASE cls = "MOSFIREDetectorConfig" -> MOSFIREDetectorConfig(1, readoutmode)
      [] cls = "NIRESSpecDetectorConfig" -> NIRESSpecDetectorConfig(1, readoutmode)
      [] cls = "NIRESScamDetectorConfig" -> NIRESScamDetectorConfig(1, readoutmode)

\* The NIRES constructors hand nexp to IRDetectorConfig.__init__, which
\* in keckODL has no such parameter.  With the NameError of odl, no NIRES
\* detector config comes to exist, and no MOSFIRE one in odl: validate()
\* is reached on the MOSFIRE detector configs of keckODL.
NIRESDetectorConfig_init(p) ==
    IF p = "odl" THEN IRDetectorConfig_init(p) ELSE "TypeError"

\* The constructor of one of the three IR detector configs.
NewIRDetectorConfig(cls, readoutmode) ==
    /\ Fresh
    /\ LET status == IF cls = "MOSFIREDetectorConfig"
                     THEN IRDetectorConfig_init(pkg)
                     ELSE NIRESDetectorConfig_init(pkg)
       IN  /\ obj' = IF status = "ok"
                     THEN [kind |-> "DetectorConfig",
                           v |-> IRDetectorConfigOf(cls, readoutmode)]
                     ELSE obj
           /\ Done(cls, status)
    /\ UNCHANGED file

\* The detector config of the block that arcs() or domeflats() of a
\* MOSFIREConfig returns.
NewCalDetectorConfig(filter, method) ==
    /\ Fresh
    /\ LET h == <<MOSFIREConfig(filter)>>
           r == IF method = "arcs"
                THEN MOSFIREConfig_arcs(pkg, h, 1, "Ne")
                ELSE MOSFIREConfig_domeflats(pkg, h, 1, FALSE)
       IN  /\ obj' = IF r.status = "ok"
                     THEN [kind |-> "DetectorConfig", v |-> r.blk.detconfig[1]]
                     ELSE obj
           /\ Done(method, r.status)
    /\ UNCHANGED file

(***************************************************************************)
(* Targets.  A field that may be None holds << >> for None and <<x>> for   *)
(* the value x.                                                            *)
(***************************************************************************)
None == <<>>

rotator_modes == {"pa", "stationary", "vertical"}

acquisition_modes ==
    {"guider: bright", "guider: faint", "guider: offset", "mask align",
     "mask align + offset", "blind", "none"}

object_types ==
    {"science", "sky", "flux standard", "telluric standard", "cal", "custom"}

\* A range that leaves out the default PA.
valid_PAs_above_zero == [m \in rotator_modes |-> <<1, 360>>]

valid_PAs == [m \in rotator_modes |-> <<0, 360>>]

\* No name stands for a calibration position.
cal_positions_empty == {}

cal_positions == {"none", "domeflat", "domeflats"}

telescope_wraps == {"n", "s", "north", "south", "shortest"}

\* str.lower() on the strings the targets are built with.
lower(str) ==
    CASE str = "PA" -> "pa"
      [] str = "Stationary" -> "stationary"
      [] str = "Vertical" -> "vertical"
      [] str = "DomeFlats" -> "domeflats"
      [] str = "Blind" -> "blind"
      [] str = "Cal" -> "cal"
      [] str = "North" -> "north"
      [] OTHER -> str

\* What the name resolver gives for a name: a coordinate in the ICRS frame.
SkyCoord_from_name(name) == [ra |-> 10, dec |-> 20, frame |-> "icrs"]

Target(name, RA, Dec, equinox, frame, rotmode, PA, objecttype, acquisition, PMRA, PMDec, epoch, obstime, wrap) ==
    LET self == [name |-> name, RA |-> RA, Dec |-> Dec, equinox |-> equinox,
                 frame |-> frame, rotmode |-> rotmode, PA |-> PA,
                 objecttype |-> objecttype, acquisition |-> acquisition,
                 PMRA |-> PMRA, PMDec |-> PMDec, epoch |-> epoch,
                 obstime |-> obstime, wrap |-> wrap]
    IN  IF name # None /\ RA = None /\ Dec = None
        THEN IF lower(name[1]) \notin {"none", "domeflat", "domeflats"}
             THEN LET sc == SkyCoord_from_name(name[1])
                  IN  [self EXCEPT !.RA = <<sc.ra>>, !.Dec = <<sc.dec>>,
                                   !.frame = sc.frame,
                                   !.equinox = IF sc.frame = "icrs"
                                               THEN <<2000>> ELSE @]
             ELSE self
        ELSE [self EXCEPT !.equinox = IF frame = "icrs" THEN <<2000>>
                                      ELSE equinox]

DomeFlats(PA) ==
    Target(<<"DomeFlats">>, None, None, None, "icrs", <<"Stationary">>,
           <<PA>>, <<"cal">>, <<"blind">>, 0, 0, None, None, None)

\* validate() sets the defaults on the object as it goes; what it has set
\* stays set when a later test raises.
Target_validate(self) ==
    LET Raise(t, w) == [status |-> "TargetError", v |-> t, warnings |-> w]
        calpos == lower(self.name[1]) \in cal_positions
        t1 == IF self.rotmode = None
              THEN [self EXCEPT !.rotmode = <<"PA">>] ELSE self
        w1 == IF self.rotmode = None
              THEN {"No rotator mode given, assuming PA mode"} ELSE {}
        t2 == IF t1.PA = None THEN [t1 EXCEPT !.PA = <<0>>] ELSE t1
        w2 == IF t1.PA = None
              THEN w1 \cup {"No PA given, assuming 0 deg"} ELSE w1
        range == valid_PAs[lower(t2.rotmode[1])]
        t3 == IF t2.acquisition = None
              THEN [t2 EXCEPT !.acquisition = <<"guider: bright">>] ELSE t2
        w3 == IF t2.acquisition = None
              THEN w2 \cup {"No acquisition mode given, assuming guider: bright"}
              ELSE w2
        t4 == IF t3.objecttype = None
              THEN [t3 EXCEPT !.objecttype = <<"science">>] ELSE t3
        w4 == IF t3.objecttype = None
              THEN w3 \cup {"No object type given, assuming science"}
              ELSE w3
    IN  IF self.name = None THEN Raise(self, {})
        ELSE IF self.RA = None /\ ~calpos THEN Raise(self, {})
        ELSE IF self.Dec = None /\ ~calpos THEN Raise(self, {})
        ELSE IF self.equinox = None /\ ~calpos THEN Raise(self, {})
        ELSE IF lower(t1.rotmode[1]) \notin rotator_modes THEN Raise(t1, w1)
        ELSE IF t2.PA[1] < range[1] \/ t2.PA[1] > range[2] THEN Raise(t2, w2)
        ELSE IF lower(t3.acquisition[1]) \notin acquisition_modes
        THEN Raise(t3, w3)
        ELSE IF lower(t4.objecttype[1]) \notin object_types THEN Raise(t4, w4)
        ELSE IF t4.wrap # None /\ lower(t4.wrap[1]) \notin telescope_wraps
        THEN Raise(t4, w4)
        ELSE [status |-> "ok", v |-> t4, warnings |-> w4]

abs(x) == IF x < 0 THEN -x ELSE x

\* SkyCoord.apply_space_motion: the coordinate moved by its proper motion
\* over the time from its obstime to new_obstime.
apply_space_motion(sc, new_obstime) ==
    [sc EXCEPT !.ra = @ + sc.pm_ra_cosdec * (new_obstime - sc.obstime),
               !.dec = @ + sc.pm_dec * (new_obstime - sc.obstime),
               !.obstime = new_obstime]

\* Propagation wherever either component is non-zero.
Target_coord_either(self, now) ==
    LET myepoch == IF self.epoch # None THEN self.epoch[1] ELSE now
        sc == [ra |-> self.RA[1], dec |-> self.Dec[1], obstime |-> myepoch,
               pm_ra_cosdec |-> self.PMRA, pm_dec |-> self.PMDec]
    IN  IF abs(self.PMRA) > 0 \/ abs(self.PMDec) > 0
        THEN LET obstime == IF self.obstime = None THEN now
                            ELSE self.obstime[1]
             IN  [applied |-> TRUE, sc |-> apply_space_motion(sc, obstime)]
        ELSE [applied |-> FALSE, sc |-> sc]

\* coord(): the coordinate, and whether apply_space_motion gave it; now is
\* what Time.now() returns.
Target_coord(self, now) ==
    LET myepoch == IF self.epoch # None THEN self.epoch[1] ELSE now
        sc == [ra |-> self.RA[1], dec |-> self.Dec[1], obstime |-> myepoch,
               pm_ra_cosdec |-> self.PMRA, pm_dec |-> self.PMDec]
    IN  IF abs(self.PMRA) > 0 /\ abs(self.PMDec) > 0
        THEN LET obstime == IF self.obstime = None THEN now
                            ELSE self.obstime[1]
             IN  [applied |-> TRUE, sc |-> apply_space_motion(sc, obstime)]
        ELSE [applied |-> FALSE, sc |-> sc]

IsTarget == obj.kind = "Target"

Names == {None, <<"star">>, <<"DomeFlats">>}

Coordinates == {<<None, None>>, <<<<10>>, <<20>>>>, <<<<10>>, None>>}

Equinoxes == {<<"icrs", None>>, <<"fk5", None>>}

RotatorModes == {None, <<"PA">>, <<"vertical">>, <<"sideways">>}

PAs == {None, <<0>>, <<360>>, <<361>>, <<-1>>}

Acquisitions == {None, <<"blind">>, <<"guess">>}

ObjectTypes == {None, <<"cal">>, <<"planet">>}

Wraps == {None, <<"north">>, <<"east">>}

ProperMotions == {0, 2}

Years == {None, <<2000>>, <<2010>>}

\* Target(...) given its name, position and rotator fields, the others left
\* at their defaults; the module of targets is in the keckODL package only.
NewTarget(name, radec, eq, rotmode, PA) ==
    /\ Fresh
    /\ pkg = "keckODL"
    /\ obj' = [kind |-> "Target",
               v |-> Target(name, radec[1], radec[2], eq[2], eq[1], rotmode,
                            PA, None, None, 0, 0, None, None, None)]
    /\ Done("Target", "ok")
    /\ UNCHANGED file

\* Target(...) given a name, a position and the enumerated fields.
NewTargetModes(rotmode, PA, acquisition, objecttype, wrap) ==
    /\ Fresh
    /\ pkg = "keckODL"
    /\ obj' = [kind |-> "Target",
               v |-> Target(<<"star">>, <<10>>, <<20>>, None, "icrs", rotmode,
                            PA, objecttype, acquisition, 0, 0, None, None,
                            wrap)]
    /\ Done("Target", "ok")
    /\ UNCHANGED file

NewDomeFlats(PA) ==
    /\ Fresh
    /\ pkg = "keckODL"
    /\ obj' = [kind |-> "Target", v |-> DomeFlats(PA)]
    /\ Done("DomeFlats", "ok")
    /\ UNCHANGED file

\* Target(...) with the fields coord() reads.
NewMovingTarget(PMRA, PMDec, epoch, obstime) ==
    /\ Fresh
    /\ pkg = "keckODL"
    /\ obj' = [kind |-> "Target",
               v |-> Target(<<"star">>, <<10>>, <<20>>, None, "icrs",
                            <<"PA">>, <<0>>, <<"science">>, <<"blind">>,
                            PMRA, PMDec, epoch, obstime, None)]
    /\ Done("Target", "ok")
    /\ UNCHANGED file

\* coord() of a target that has RA, Dec and equinox.
CallCoord(now) ==
    /\ IsTarget
    /\ obj.v.RA # None /\ obj.v.Dec # None /\ obj.v.equinox # None
    /\ DoneWith("coord", "ok", {}, Target_coord(obj.v, now))
    /\ UNCHANGED <<obj, file>>

\* validate() of the object, whatever its class: how it ends, the object
\* after it, the warnings it issued.
validate(p, o) ==
    CASE o.kind = "OffsetPattern" ->
            [status |-> OffsetPattern_validate(p, o.v), v |-> o.v,
             warnings |-> {}]
      [] o.kind = "DetectorConfig" ->
            [status |-> DetectorConfig_validate(p, o.v), v |-> o.v,
             warnings |-> {}]
      [] o.kind = "Target" -> Target_validate(o.v)

CallValidate ==
    /\ obj.kind # "none"
    /\ LET r == validate(pkg, obj)
       IN  /\ obj' = [obj EXCEPT !.v = r.v]
           /\ DoneWith("validate", r.status, r.warnings, <<>>)
    /\ UNCHANGED file

(***************************************************************************)
(* write(file).  The file at the path is absent, or holds what was there   *)
(* before ("old"), or what this write put there ("new"), or nothing        *)
(* ("empty": opened for writing and closed with nothing written).          *)
(***************************************************************************)
\* DetectorConfig.write and OffsetPattern.write: validate(), then unlink
\* and write.
validate_then_write(p, o, f) ==
    LET r == validate(p, o)
    IN  IF r.status # "ok"
        THEN [status |-> r.status, file |-> f]
        ELSE [status |-> "ok", file |-> "new"]

\* Target.write hands the target to TargetList.write, which unlinks the
\* file, opens it and dumps to_dict() of each target; to_dict() calls
\* coord().  excs are the exceptions coord() may raise.
TargetList_write(self, f, exc) ==
    IF self.RA = None \/ self.Dec = None \/ self.equinox = None
    THEN [status |-> exc, file |-> "empty"]
    ELSE [status |-> "ok", file |-> "new"]

CallWrite ==
    /\ obj.kind # "none"
    /\ \E exc \in {"TypeError", "ValueError"} :
          LET r == IF IsTarget THEN TargetList_write(obj.v, file, exc)
                   ELSE validate_then_write(pkg, obj, file)
          IN  /\ file' = r.file
              /\ Done("write", r.status)
    /\ UNCHANGED obj

NextObject ==
    \/ \E offsets \in OffsetLists, repeat \in RepeatInputs :
          NewOffsetPattern(offsets, repeat)
    \/ \E repeat \in RepeatInputs : NewStare(repeat)
    \/ \E repeat \in RepeatInputs : NewABBA(repeat)
    \/ \E frame \in FrameInputs \cup {"SkyFrame?"} : NewTelescopeOffset(frame)
    \/ \E offsetangle \in {0, 10} : NewInstrumentFrame(offsetangle)
    \/ \E item \in OffsetInputs : PatternAppend(item)
    \/ \E other \in OffsetLists : PatternExtend(other)
    \/ \E i \in 1..MaxOffsets, item \in OffsetInputs : PatternInsert(i, item)
    \/ \E i \in 1..MaxOffsets, item \in OffsetInputs : PatternSetItem(i, item)
    \/ \E cls \in IRClasses, readoutmode \in ReadoutModes :
          NewIRDetectorConfig(cls, readoutmode)
    \/ \E filter \in Filters, method \in {"arcs", "domeflats"} :
          NewCalDetectorConfig(filter, method)
    \/ \E name \in Names, radec \in Coordinates, eq \in Equinoxes,
          rotmode \in RotatorModes, PA \in PAs :
          NewTarget(name, radec, eq, rotmode, PA)
    \/ \E rotmode \in RotatorModes, PA \in PAs, acquisition \in Acquisitions,
          objecttype \in ObjectTypes, wrap \in Wraps :
          NewTargetModes(rotmode, PA, acquisition, objecttype, wrap)
    \/ \E PA \in {0, 400} : NewDomeFlats(PA)
    \/ \E PMRA \in ProperMotions, PMDec \in ProperMotions, epoch \in Years,
          obstime \in Years : NewMovingTarget(PMRA, PMDec, epoch, obstime)
    \/ \E now \in {2020, 2021} : CallCoord(now)
    \/ CallValidate
    \/ CallWrite

SpecObject == InitObject /\ [][NextObject]_vars

\* C11: every OffsetPattern, after construction and after any list operation
\* on it, holds only offsets whose frame type is the frame type of its first
\* offset; a pattern of offsets with differing frame types, in whatever
\* order, cannot be built.
C11_OneFrameType ==
    IsPattern =>
        \A i \in 1..Len(obj.v.data) :
            type(obj.v.data[i].frame) = type(obj.v.data[1].frame)

\* C12: the repeat count of every OffsetPattern is at least 1, so the step
\* count repeat * len(pattern) is never below len(pattern) and the duration
\* of a block with a positive exposure time is positive.
C12_RepeatAtLeastOne ==
    IsPattern =>
        /\ obj.v.repeat >= 1
        /\ obj.v.repeat * len(obj.v) >= len(obj.v)
        /\ len(obj.v) > 0 =>
              ObservingBlock_estimate_duration("odl",
                  TimeBlock(obj.v, <<DetectorConfig(10, 1)>>)).wall > 0

Validated == res.op = "validate" /\ IsDetectorConfig

\* The n of a readout mode 'MCDSn': -1 where the mode is not of that form.
MCDSn(str) ==
    LET cs == chars(str)
    IN  IF /\ Len(cs) > 4
           /\ SubSeq(cs, 1, 4) = <<"M", "C", "D", "S">>
           /\ digits(SubSeq(cs, 5, Len(cs))) = SubSeq(cs, 5, Len(cs))
        THEN int(SubSeq(cs, 5, Len(cs)))
        ELSE -1

\* C13: validate() of a MOSFIRE detector config with readout mode 'MCDSn'
\* ends with an error exactly when n > 16, and that of a NIRES detector
\* config exactly when n > 32; 'MCDS17' is rejected for MOSFIRE and accepted
\* for NIRES.
C13_ReadCaps ==
    (Validated /\ MCDSn(obj.v.readoutmode) >= 1) =>
        LET n == MCDSn(obj.v.readoutmode)
            most == IF obj.v.cls = "MOSFIREDetectorConfig" THEN 16 ELSE 32
        IN  (res.status # "ok") <=> (n > most)

\* C14: validate() of every IR detector config with readout mode 'CDS'
\* returns without raising, the configs that arcs() and domeflats() build
\* among them.
C14_CDSAccepted ==
    (Validated /\ obj.v.readoutmode = "CDS") => res.status = "ok"

\* C15: validate() ends with an error for every readout mode that is neither
\* 'CDS' nor 'MCDSn' with n from 1 to the largest n of the instrument.
C15_OthersRejected ==
    LET str == obj.v.readoutmode
        most == IF obj.v.cls = "MOSFIREDetectorConfig" THEN 16 ELSE 32
    IN  (Validated /\ str # "CDS" /\ ~(MCDSn(str) \in 1..most)) =>
            res.status # "ok"

\* The constructors, by the name the operation is recorded under.
ConstructorOps ==
    {"OffsetPattern", "Stare", "ABBA", "TelescopeOffset", "InstrumentFrame",
     "Target", "DomeFlats"} \cup IRClasses

C17_ValidateBeforeWrite ==
    [][(res'.op = "write" /\ validate(pkg, obj).status # "ok") =>
           (res'.status # "ok" /\ file' = file)]_vars

TargetValidated == res.op = "validate" /\ IsTarget

\* A field that is set to a value outside `allowed', compared in lower case.
SetOutside(field, allowed) ==
    field # None /\ lower(field[1]) \notin allowed

\* What the specification of a target forbids: no name; no RA, Dec or
\* equinox under a name that is no calibration position; an enumerated
\* field set to a value outside its set; a PA outside [0, 360].
TargetInvalid(t) ==
    \/ t.name = None
    \/ /\ lower(t.name[1]) \notin {"none", "domeflat", "domeflats"}
       /\ (t.RA = None \/ t.Dec = None \/ t.equinox = None)
    \/ SetOutside(t.rotmode, {"pa", "stationary", "vertical"})
    \/ t.PA # None /\ (t.PA[1] < 0 \/ t.PA[1] > 360)
    \/ SetOutside(t.acquisition,
                  {"guider: bright", "guider: faint", "guider: offset",
                   "mask align", "mask align + offset", "blind", "none"})
    \/ SetOutside(t.objecttype,
                  {"science", "sky", "flux standard", "telluric standard",
                   "cal", "custom"})
    \/ SetOutside(t.wrap, {"n", "s", "north", "south", "shortest"})

Defaulted(before, after, warnings) ==
    /\ after.rotmode = IF before.rotmode = None THEN <<"PA">>
                       ELSE before.rotmode
    /\ after.PA = IF before.PA = None THEN <<0>> ELSE before.PA
    /\ after.acquisition = IF before.acquisition = None
                           THEN <<"guider: bright">> ELSE before.acquisition
    /\ after.objecttype = IF before.objecttype = None THEN <<"science">>
                          ELSE before.objecttype
    /\ Cardinality(warnings) =
          Cardinality({f \in {"rotmode", "PA", "acquisition", "objecttype"} :
                          before[f] = None})

C20_PropagationIffBoth ==
    (res.op = "coord" /\ res.status = "ok") =>
        /\ res.out.applied <=> (obj.v.PMRA # 0 /\ obj.v.PMDec # 0)
        /\ (obj.v.PMRA = 0 \/ obj.v.PMDec = 0) =>
             /\ res.out.sc.ra = obj.v.RA[1]
             /\ res.out.sc.dec = obj.v.Dec[1]

\* coord() has returned the base coordinate of a target with one non-zero
\* component of proper motion and an obstime ten years after its epoch.
C20_Witness ==
    /\ res.op = "coord" /\ res.status = "ok"
    /\ obj.v.PMRA # 0 /\ obj.v.PMDec = 0
    /\ obj.v.epoch = <<2000>> /\ obj.v.obstime = <<2010>>
    /\ ~res.out.applied
    /\ res.out.sc.ra = 10

(***************************************************************************)
(* Dictionaries and back.  to_dict() gives the dictionary that is dumped   *)
(* as YAML; parse_yaml builds the objects again from such dictionaries.    *)
(***************************************************************************)
\* Round trips of one object, the most.
MaxRoundTrips == 2

\* frame.name: the name the frame was constructed with.
frame_name(frame) ==
    CASE frame = "SkyFrame" -> "SkyFrame"
      [] frame = "InstrumentFrame" -> "InstrumentFrame"
      [] frame = "OffsetFrame" -> "GenericFrame"
      [] frame = "slit" -> "MOSFIRE Slit"

\* to_dict() of an offset a pattern holds: its values are in arcseconds and
\* degrees since its construction.
OffsetDict(o) ==
    [dx |-> o.dx, dy |-> o.dy, dr |-> o.dr, frame |-> frame_name(o.frame),
     relative |-> o.relative, posname |-> o.posname, guide |-> o.guide]

\* keckODL's OffsetPattern has to_YAML only.
OffsetPattern_to_dict(p, P) ==
    IF p # "odl" THEN [status |-> "AttributeError"]
    ELSE [status |-> "ok",
          d |-> [name |-> P.name, repeat |-> P.repeat,
                 offsets |-> [i \in 1..Len(P.data) |-> OffsetDict(P.data[i])]]]

\* The frame classes getattr finds in the module offset.
offset_classes == {"OffsetFrame", "SkyFrame", "InstrumentFrame"}

\* The warnings a TelescopeOffset built from the numbers of a dictionary
\* issues.
NumberWarnings(o) ==
    {w \in {"dx", "dy", "dr"} : o[w] # 0}

\* parse_yaml, the entries under OffsetPatterns: each offset is built with
\* a new frame of the class the dictionary names, the pattern with the
\* name and repeat of the dictionary.
parse_yaml_OffsetPattern(p, op) ==
    IF \E i \in 1..Len(op.offsets) : op.offsets[i].frame \notin offset_classes
    THEN [status |-> "AttributeError", warnings |-> {}]
    ELSE LET offset_list ==
                 [i \in 1..Len(op.offsets) |->
                     [dx |-> op.offsets[i].dx, dy |-> op.offsets[i].dy,
                      dr |-> op.offsets[i].dr,
                      relative |-> op.offsets[i].relative,
                      posname |-> op.offsets[i].posname,
                      frame |-> op.offsets[i].frame,
                      guide |-> op.offsets[i].guide]]
             r == OffsetPattern_init(p, offset_list, op.name, op.repeat)
         IN  [status |-> r.status, v |-> r.v,
              warnings |-> UNION {NumberWarnings(op.offsets[i]) :
                                     i \in 1..Len(op.offsets)}]

\* How many round trips the object has made.
Trips == IF res.op = "roundtrip" THEN res.out.n ELSE 0

\* parse_yaml([{'OffsetPatterns': [P.to_dict()]}]); the pattern it returns
\* takes the place of P, which res.out keeps.
RoundTripPattern ==
    /\ IsPattern
    /\ Trips < MaxRoundTrips
    /\ LET d == OffsetPattern_to_dict(pkg, obj.v)
           r == IF d.status # "ok" THEN [status |-> d.status, warnings |-> {}]
                ELSE parse_yaml_OffsetPattern(pkg, d.d)
       IN  /\ obj' = IF r.status = "ok" THEN [obj EXCEPT !.v = r.v] ELSE obj
           /\ DoneWith("roundtrip", r.status, r.warnings,
                       [orig |-> obj.v, n |-> Trips + 1])
    /\ UNCHANGED file

\* C21: an OffsetPattern's to_dict() followed by parse_yaml gives a pattern
\* of the same name, the same repeat and the same offsets in the same order,
\* for patterns in the sky frame and in the instrument frame; the round trip
\* is idempotent.
C21_PatternRoundTrip ==
    [][(/\ IsPattern /\ pkg = "odl" /\ res'.op = "roundtrip"
        /\ \A i \in 1..Len(obj.v.data) :
              obj.v.data[i].frame \in {"SkyFrame", "InstrumentFrame"})
       => (res'.status = "ok" /\ obj'.v = obj.v)]_vars

\* Time.byear of a decimal year: the Besselian year, which is another number
\* than the decimal year it is taken of; kept as a term.
byear(decimalyear) == <<"byear", decimalyear>>

\* to_dict() of a target that has RA, Dec and equinox; now is what
\* Time.now() returns.  The position, equinox and epoch are those of
\* coord(), the other fields those of the target.
Target_to_dict(self, now) ==
    LET coord == Target_coord(self, now).sc
    IN  [name |-> self.name, RA |-> <<coord.ra>>, Dec |-> <<coord.dec>>,
         equinox |-> <<byear(self.equinox[1])>>,
         epoch |-> <<byear(coord.obstime)>>, frame |-> self.frame,
         rotmode |-> self.rotmode, PA |-> self.PA,
         objecttype |-> self.objecttype, acquisition |-> self.acquisition,
         PMRA |-> self.PMRA, PMDec |-> self.PMDec, obstime |-> self.obstime,
         wrap |-> self.wrap]

\* parse_yaml, the entries under Targets, and TargetList.parse_yaml: the
\* keywords they hand to Target(); wrap is not among them.
parse_yaml_Target(td) ==
    Target(td.name, td.RA, td.Dec, td.equinox, td.frame, td.rotmode, td.PA,
           td.objecttype, td.acquisition, td.PMRA, td.PMDec, td.epoch,
           td.obstime, None)

\* parse_yaml([TargetList([t]).to_dict()]) for the target t, once.
RoundTripTarget(now) ==
    /\ IsTarget
    /\ obj.v.RA # None /\ obj.v.Dec # None /\ obj.v.equinox # None
    /\ Trips = 0
    /\ obj' = [obj EXCEPT !.v = parse_yaml_Target(Target_to_dict(obj.v, now))]
    /\ DoneWith("roundtrip", "ok", {}, [orig |-> obj.v, n |-> 1])
    /\ UNCHANGED file

\* The fields to_dict() emits as the target holds them.
EmittedAsStored ==
    {"name", "rotmode", "PA", "objecttype", "acquisition", "PMRA", "PMDec",
     "obstime", "wrap"}

\* C22: a TargetList's to_dict() followed by parse_yaml gives the same
\* targets in the same order, each with the same value of every field that
\* to_dict() emits, wrap among them.
C22_TargetRoundTrip ==
    [][(IsTarget /\ res'.op = "roundtrip") =>
          /\ res'.status = "ok"
          /\ \A f \in EmittedAsStored : obj'.v[f] = obj.v[f]]_vars

(***************************************************************************)
(* Units of a TelescopeOffset.  dx, dy and dr are bare numbers (unit       *)
(* "none") or quantities; the values here are whole numbers.               *)
(***************************************************************************)
Quantity(value, unit) == [value |-> value, unit |-> unit]

Number(value) == Quantity(value, "none")

\* x.to(u.arcsec)
to_arcsec(q) ==
    CASE q.unit = "arcsec" -> q
      [] q.unit = "arcmin" -> Quantity(q.value * 60, "arcsec")
      [] q.unit = "deg" -> Quantity(q.value * 3600, "arcsec")

\* x.to(u.degree), of whole degrees
to_degree(q) ==
    CASE q.unit = "deg" -> q
      [] q.unit = "arcmin" -> Quantity(q.value \div 60, "deg")
      [] q.unit = "arcsec" -> Quantity(q.value \div 3600, "deg")

\* A conversion that warns for every value that is not zero, whatever its
\* type.
standardize_units_rewarn(self) ==
    LET mul(x, unit) == IF x.unit = "none" THEN Quantity(x.value, unit) ELSE x
    IN  [v |-> [self EXCEPT !.dx = to_arcsec(mul(@, "arcsec")),
                            !.dy = to_arcsec(mul(@, "arcsec")),
                            !.dr = to_degree(mul(@, "deg"))],
         warnings |-> {w \in {"dx", "dy", "dr"} : self[w].value # 0}]

\* standardize_units(): a bare number is taken as arcseconds (dx, dy) or
\* degrees (dr), with a warning where it is not zero; a quantity is
\* converted.
standardize_units(self) ==
    LET mul(x, unit) == IF x.unit = "none" THEN Quantity(x.value, unit) ELSE x
    IN  [v |-> [self EXCEPT !.dx = to_arcsec(mul(@, "arcsec")),
                            !.dy = to_arcsec(mul(@, "arcsec")),
                            !.dr = to_degree(mul(@, "deg"))],
         warnings |-> {w \in {"dx", "dy", "dr"} :
                          self[w].unit = "none" /\ self[w].value # 0}]

\* TelescopeOffset(dx=, dy=, dr=, frame=): the attributes are set, then
\* standardize_units() and validate() are called.
TelescopeOffset_init(dx, dy, dr, frame) ==
    LET self == [dx |-> dx, dy |-> dy, dr |-> dr, relative |-> FALSE,
                 posname |-> "", frame |-> frame, guide |-> TRUE]
        s == standardize_units(self)
    IN  [status |-> TelescopeOffset_validate(frame), v |-> s.v,
         warnings |-> s.warnings]

\* TelescopeOffset.to_dict(): standardize_units(), validate(), then the
\* values as floats.
TelescopeOffset_to_dict(self) ==
    LET s == standardize_units(self)
    IN  [status |-> TelescopeOffset_validate(self.frame), v |-> s.v,
         warnings |-> s.warnings,
         d |-> [dx |-> s.v.dx.value, dy |-> s.v.dy.value,
                dr |-> s.v.dr.value, frame |-> frame_name(s.v.frame),
                relative |-> s.v.relative, posname |-> s.v.posname,
                guide |-> s.v.guide]]

\* execute(): standardize_units(), then the two keyword writes it prints.
TelescopeOffset_execute(self) ==
    LET s == standardize_units(self)
    IN  [status |-> "ok", v |-> s.v, warnings |-> s.warnings,
         d |-> <<s.v.dx.value, s.v.dy.value>>]

IsOffset == obj.kind = "TelescopeOffset"

OffsetValues ==
    {Number(0), Number(2), Number(-1), Quantity(2, "arcsec"),
     Quantity(1, "arcmin")}

RotationValues == {Number(0), Number(3), Quantity(3, "deg")}

\* args keeps what the constructor was given.
NewOffset(dx, dy, dr) ==
    /\ Fresh
    /\ LET r == TelescopeOffset_init(dx, dy, dr, "SkyFrame")
       IN  /\ obj' = [kind |-> "TelescopeOffset", v |-> r.v,
                      args |-> [dx |-> dx, dy |-> dy, dr |-> dr]]
           /\ DoneWith("TelescopeOffset", r.status, r.warnings, <<>>)
    /\ UNCHANGED file

OffsetToDict ==
    /\ IsOffset
    /\ LET r == TelescopeOffset_to_dict(obj.v)
       IN  /\ obj' = [obj EXCEPT !.v = r.v]
           /\ DoneWith("to_dict", r.status, r.warnings, r.d)
    /\ UNCHANGED file

OffsetExecute ==
    /\ IsOffset
    /\ LET r == TelescopeOffset_execute(obj.v)
       IN  /\ obj' = [obj EXCEPT !.v = r.v]
           /\ DoneWith("execute", r.status, r.warnings, r.d)
    /\ UNCHANGED file

\* The offset built again from its dictionary, as parse_yaml builds it.
RoundTripOffset ==
    /\ IsOffset
    /\ Trips < MaxRoundTrips
    /\ LET d == TelescopeOffset_to_dict(obj.v).d
           r == TelescopeOffset_init(Number(d.dx), Number(d.dy), Number(d.dr),
                                     d.frame)
       IN  /\ obj' = [obj EXCEPT !.v = r.v]
           /\ DoneWith("roundtrip", r.status, r.warnings,
                       [orig |-> obj.v, n |-> Trips + 1])
    /\ UNCHANGED file

\* C23: a TelescopeOffset built from bare numbers holds, once constructed,
\* dx and dy in arcseconds and dr in degrees with the numbers given;
\* to_dict() emits those numbers and the offset built from that dictionary
\* holds the same values; the conversion is idempotent: to_dict() and
\* execute() neither change the values nor warn of an assumed unit again.
C23_UnitsOnce ==
    [][/\ res'.op = "TelescopeOffset" =>
            \A f \in {"dx", "dy", "dr"} :
               /\ obj'.v[f].unit = IF f = "dr" THEN "deg" ELSE "arcsec"
               /\ obj'.args[f].unit = "none" =>
                     obj'.v[f].value = obj'.args[f].value
       /\ (IsOffset /\ res'.op \in {"to_dict", "execute"}) =>
            /\ obj' = obj
            /\ res'.warnings = {}
            /\ res'.status = "ok"
       /\ (IsOffset /\ res'.op = "to_dict") =>
            \A f \in {"dx", "dy", "dr"} : res'.out[f] = obj.v[f].value
       /\ (IsOffset /\ res'.op = "roundtrip") =>
            /\ res'.status = "ok"
            /\ obj'.v = obj.v]_vars

\* to_dict() has been called on an offset built from bare numbers that are
\* not zero: it warned of nothing and emitted the numbers.
C23_Witness ==
    /\ IsOffset
    /\ res.op = "to_dict" /\ res.status = "ok" /\ res.warnings = {}
    /\ obj.args = [dx |-> Number(2), dy |-> Number(-1), dr |-> Number(3)]
    /\ res.out.dx = 2 /\ res.out.dy = -1 /\ res.out.dr = 3
    /\ obj.v.dx = Quantity(2, "arcsec") /\ obj.v.dr = Quantity(3, "deg")

(***************************************************************************)
(* Durations of detector configs; estimate_duration and match_time are     *)
(* methods of the odl package.                                             *)
(***************************************************************************)
\* The attributes CCDDetectorConfig.__init__ sets before its test of name.
CCDDetectorConfig(exptime, nexp) ==
    [cls |-> "CCDDetectorConfig", instrument |-> "GenericCCD",
     detector |-> "", exptime |-> exptime, nexp |-> nexp,
     readoutmode |-> "None", ampmode |-> "None", dark |-> FALSE,
     binning |-> "1x1"]

\* CCDDetectorConfig.__init__ ends with a test of `name', which is neither
\* a parameter nor a global.
CCDDetectorConfig_init == "NameError"

KCWIblue(exptime, nexp, readoutmode, ampmode, binning) ==
    [KCWIblueDetectorConfig(exptime, FALSE) EXCEPT
        !.nexp = nexp, !.readoutmode = readoutmode, !.ampmode = ampmode,
        !.binning = binning]

\* CCDDetectorConfig.set_name
CCDDetectorConfig_set_name(dc) ==
    dc.instrument \o dc.detector \o " " \o ToString(dc.exptime) \o "s"
       \o (IF dc.dark THEN " (Dark)" ELSE "") \o " x" \o ToString(dc.nexp)

\* match_time(target) of the CCD family; target is a multiple of nexp here.
CCDDetectorConfig_match_time(dc, target) ==
    LET overhead_per_exp == other_overhead(dc) + readout_time(dc)
                            + erase_time(dc)
        v == [dc EXCEPT !.exptime = target \div dc.nexp - overhead_per_exp]
    IN  [status |-> "ok", v |-> v, name |-> CCDDetectorConfig_set_name(v)]

\* CMOSDetectorConfig.match_time calls other_overhead(), which the class
\* has not.
CMOSDetectorConfig_match_time(dc, target) ==
    [status |-> "AttributeError", v |-> dc, name |-> ""]

match_time(dc, target) ==
    IF dc.cls = "CMOSDetectorConfig"
    THEN CMOSDetectorConfig_match_time(dc, target)
    ELSE CCDDetectorConfig_match_time(dc, target)

DurationInputs ==
    {DetectorConfig(10, 1), DetectorConfig(5, 2), CMOSDetectorConfig(5, 2, 2),
     CMOSDetectorConfig(0, 1, 0), CCDDetectorConfig(10, 1)}
    \cup {KCWIblue(10, nexp, readoutmode, ampmode, binning) :
             nexp \in {1, 2}, readoutmode \in {0, 1}, ampmode \in 0..10,
             binning \in {"1x1", "2x2"}}

NewDurationConfig(dc) ==
    /\ Fresh
    /\ pkg = "odl"
    /\ LET status == IF dc.cls = "CCDDetectorConfig"
                     THEN CCDDetectorConfig_init ELSE "ok"
       IN  /\ obj' = IF status = "ok"
                     THEN [kind |-> "DetectorConfig", v |-> dc] ELSE obj
           /\ Done(dc.cls, status)
    /\ UNCHANGED file

CallDuration ==
    /\ IsDetectorConfig
    /\ pkg = "odl"
    /\ DoneWith("estimate_duration", "ok", {}, estimate_duration(obj.v))
    /\ UNCHANGED <<obj, file>>

MatchTargets == {0, 100, 600}

CallMatchTime(target) ==
    /\ IsDetectorConfig
    /\ pkg = "odl"
    /\ obj.v.cls # "DetectorConfig"
    /\ LET r == match_time(obj.v, target)
       IN  /\ obj' = [obj EXCEPT !.v = r.v]
           /\ DoneWith("match_time", r.status, {},
                       [target |-> target, name |-> r.name])
    /\ UNCHANGED file

\* The readout times of the KCWI blue detector in seconds, by speed, number
\* of amplifiers and binning.
TableReadTime(speed, namps, binning) ==
    CASE <<speed, namps, binning>> = <<"slow", 1, "1x1">> -> 337
      [] <<speed, namps, binning>> = <<"slow", 1, "2x2">> -> 106
      [] <<speed, namps, binning>> = <<"slow", 2, "1x1">> -> 170
      [] <<speed, namps, binning>> = <<"slow", 2, "2x2">> -> 53
      [] <<speed, namps, binning>> = <<"slow", 4, "1x1">> -> 85
      [] <<speed, namps, binning>> = <<"slow", 4, "2x2">> -> 27
      [] <<speed, namps, binning>> = <<"fast", 1, "1x1">> -> 75
      [] <<speed, namps, binning>> = <<"fast", 1, "2x2">> -> 25
      [] <<speed, namps, binning>> = <<"fast", 2, "1x1">> -> 38
      [] <<speed, namps, binning>> = <<"fast", 2, "2x2">> -> 13
      [] <<speed, namps, binning>> = <<"fast", 4, "1x1">> -> 19
      [] <<speed, namps, binning>> = <<"fast", 4, "2x2">> -> 7

\* The number of amplifiers an amplifier mode reads with.
Amplifiers(ampmode) ==
    IF ampmode = 0 THEN 4 ELSE IF ampmode \in 1..8 THEN 1 ELSE 2

\* C24: estimate_duration() returns exptime for the generic config,
\* (erase + exptime + readout + other overhead) * nexp for the CCD family
\* and (overhead + exptime) * nexp for the CMOS family; the readout time of
\* the KCWI blue detector is read from a table by speed (slow, fast), number
\* of amplifiers (one, two, four, from the amplifier mode) and binning (1x1,
\* 2x2), and is defined for every amplifier mode from 0 to 10.
C24_Durations ==
    (IsDetectorConfig /\ res.op = "estimate_duration") =>
        /\ res.status = "ok"
        /\ obj.v.cls = "DetectorConfig" => res.out = obj.v.exptime
        /\ obj.v.cls = "CMOSDetectorConfig" =>
              res.out = (obj.v.overhead + obj.v.exptime) * obj.v.nexp
        /\ obj.v.cls = "KCWIblueDetectorConfig" =>
              res.out =
                 (0 + obj.v.exptime
                    + TableReadTime(IF obj.v.readoutmode = 0 THEN "slow"
                                    ELSE "fast",
                                    Amplifiers(obj.v.ampmode), obj.v.binning)
                    + 0) * obj.v.nexp

\* The estimate of two exposures of 10 s, read fast through two amplifiers
\* (mode 10) with 2x2 binning, has been taken: twice 10 s and 13 s.
C24_Witness ==
    /\ IsDetectorConfig /\ res.op = "estimate_duration"
    /\ obj.v = KCWIblue(10, 2, 1, 10, "2x2")
    /\ res.out = 46

\* C29: for a config of the CCD or the CMOS family with nexp of 1 or more,
\* estimate_duration() is T after match_time(T), the name is the one of the
\* new exposure time, and the exposure time is not negative for any T of 0
\* or more.
C29_MatchTime ==
    [][(IsDetectorConfig /\ res'.op = "match_time" /\ obj.v.nexp >= 1
        /\ res'.out.target >= 0) =>
          /\ res'.status = "ok"
          /\ estimate_duration(obj'.v) = res'.out.target
          /\ res'.out.name = CCDDetectorConfig_set_name(obj'.v)
          /\ obj'.v.exptime >= 0]_vars

(***************************************************************************)
(* Lists of blocks and sequences; an element is known by its class.        *)
(***************************************************************************)
ElementClasses ==
    {"ObservingBlock", "ScienceBlock", "TelluricBlock", "StandardStarBlock",
     "CalibrationBlock", "FocusBlock", "SequenceElement", "str"}

\* ObservingBlockList.validate: type(s) != ObservingBlock raises; the
\* validate() of a block does nothing.
ObservingBlockList_validate(data) ==
    IF \E i \in 1..Len(data) : data[i] # "ObservingBlock"
    THEN "BlockError" ELSE "ok"

\* Sequence.validate, of the keckODL package.
Sequence_validate(data) ==
    IF \E i \in 1..Len(data) : data[i] # "SequenceElement"
    THEN "SequenceError" ELSE "ok"

\* Elements of a list, the most.
MaxElements == 2

ElementLists == UNION {[1..n -> ElementClasses] : n \in 0..MaxElements}

IsList == obj.kind \in {"ObservingBlockList", "Sequence"}

NewList(kind, data) ==
    /\ Fresh
    /\ kind = "Sequence" => pkg = "keckODL"
    /\ obj' = [kind |-> kind, v |-> [data |-> data]]
    /\ Done(kind, "ok")
    /\ UNCHANGED file

\* The list cals() returns for a list of one science block.
NewCalsList ==
    /\ Fresh
    /\ obj' = [kind |-> "ObservingBlockList",
               v |-> [data |-> <<CalBlockClass(pkg), CalBlockClass(pkg)>>]]
    /\ Done("cals", "ok")
    /\ UNCHANGED file

CallListValidate ==
    /\ IsList
    /\ Done("validate",
            IF obj.kind = "Sequence" THEN Sequence_validate(obj.v.data)
            ELSE ObservingBlockList_validate(obj.v.data))
    /\ UNCHANGED <<obj, file>>

\* The observing block and its five subclasses.
ObservingBlocks ==
    {"ObservingBlock", "ScienceBlock", "TelluricBlock", "StandardStarBlock",
     "CalibrationBlock", "FocusBlock"}

\* C25: ObservingBlockList.validate() raises BlockError exactly when an
\* element is no observing block, Sequence.validate() raises SequenceError
\* exactly when an element is no sequence element; a list of blocks of the
\* five subclasses only, such as cals() returns, validates.
C25_ListsValidate ==
    (IsList /\ res.op = "validate") =>
        /\ obj.kind = "ObservingBlockList" =>
              (res.status = "BlockError" <=>
                  \E i \in 1..Len(obj.v.data) :
                     obj.v.data[i] \notin ObservingBlocks)
        /\ obj.kind = "Sequence" =>
              (res.status = "SequenceError" <=>
                  \E i \in 1..Len(obj.v.data) :
                     obj.v.data[i] # "SequenceElement")
        /\ res.status \in {"ok", "BlockError", "SequenceError"}

(***************************************************************************)
(* Blocks built by the constructors of the five subclasses, which take     *)
(* blocktype as a keyword.                                                 *)
(***************************************************************************)
Block_init(p, cls, blocktype) ==
    [cls |-> cls,
     blocktype |-> IF blocktype = None THEN BlockTypeOf(p, cls)
                   ELSE blocktype[1]]

IsBlock == obj.kind = "Block"

NewBlock(cls, blocktype) ==
    /\ Fresh
    /\ obj' = [kind |-> "Block", v |-> Block_init(pkg, cls, blocktype)]
    /\ Done(cls, "ok")
    /\ UNCHANGED file

\* cals() of a block reads the block and returns blocks or None.
CallBlockCals ==
    /\ IsBlock
    /\ Done("block.cals", "ok")
    /\ UNCHANGED <<obj, file>>

\* The tag of each specialised constructor.
TagOf(cls) ==
    CASE cls = "ScienceBlock" -> "science"
      [] cls = "TelluricBlock" -> "telluric"
      [] cls = "StandardStarBlock" -> "standard"
      [] cls = "CalibrationBlock" -> "calibration"
      [] cls = "FocusBlock" -> "focus"

\* C26: the block type of a block built by a specialised constructor is the
\* tag of that constructor, one of science, telluric, standard, calibration
\* and focus, whatever the arguments of the constructor, and no operation
\* changes it.
C26_BlockTypeTag ==
    IsBlock => obj.v.blocktype = TagOf(obj.v.cls)

(***************************************************************************)
(* upload_to_DB.  calls lists what the function called, in order; ping is  *)
(* what check_ping() returns, status_code what the server answers to the   *)
(* POST.  input_list is the empty list.                                   *)
(***************************************************************************)
\* requests.codes.ok
codes_ok == 200

\* An upload that posts whatever check_ping() returned.
upload_to_DB_unchecked(p, ping, status_code) ==
    LET calls == (IF p = "odl" THEN <<"check_ping">> ELSE <<>>) \o <<"post">>
    IN  IF status_code = codes_ok
        THEN [ret |-> "True", calls |-> calls, warnings |-> {}]
        ELSE [ret |-> "False", calls |-> calls,
              warnings |-> {"UploadFailed"}]

\* keckODL's upload_to_DB has no check_ping and posts at once.
upload_to_DB(p, ping, status_code) ==
    IF p = "odl" /\ ping \in {"False", "None"}
    THEN [ret |-> "None", calls |-> <<"check_ping", "print">>,
          warnings |-> {}]
    ELSE LET calls == (IF p = "odl" THEN <<"check_ping">> ELSE <<>>)
                      \o <<"post">>
         IN  IF status_code = codes_ok
             THEN [ret |-> "True", calls |-> calls, warnings |-> {}]
             ELSE [ret |-> "False", calls |-> calls,
                   warnings |-> {"UploadFailed"}]

CallUpload(ping, status_code) ==
    /\ obj.kind = "none"
    /\ LET r == upload_to_DB(pkg, ping, status_code)
       IN  DoneWith("upload_to_DB", "ok", r.warnings,
                    [ret |-> r.ret, calls |-> r.calls, ping |-> ping,
                     status_code |-> status_code])
    /\ UNCHANGED <<obj, file>>

Uploaded == res.op = "upload_to_DB"

Posts == {i \in 1..Len(res.out.calls) : res.out.calls[i] = "post"}

Checks == {i \in 1..Len(res.out.calls) : res.out.calls[i] = "check_ping"}

Bands == {"B", "V"}

default_mag == [band \in Bands |-> None]

\* Target(..., mag=...) twice; given[i] is None where the i-th target is
\* built with no mag argument, and a dictionary otherwise.
TargetPair(given) ==
    LET own == [i \in 1..2 |->
                   IF given[i] = None THEN 1
                   ELSE 1 + Cardinality({j \in 1..i : given[j] # None})]
    IN  [mag |-> own,
         dicts |-> <<default_mag>> \o
                   (IF given[1] # None THEN <<given[1][1]>> ELSE <<>>) \o
                   (IF given[2] # None THEN <<given[2][1]>> ELSE <<>>),
         given |-> given]

\* to_dict()['mag']: the bands that are not None.
Target_mags(pair, i) ==
    LET mag == pair.dicts[pair.mag[i]]
    IN  {<<band, mag[band]>> : band \in {b \in Bands : mag[b] # None}}

\* to_starlist(): the vmag field, and the magnitudes in the comment.
Target_to_starlist(pair, i) ==
    LET mag == pair.dicts[pair.mag[i]]
    IN  [vmag |-> mag["V"],
         comment |-> {<<band, mag[band]>> :
                         band \in {b \in Bands : mag[b] # None}}]

IsPair == obj.kind = "TargetPair"

MagArguments == {None, <<default_mag>>, <<[B |-> None, V |-> <<10>>]>>}

NewTargetPair(given) ==
    /\ Fresh
    /\ pkg = "keckODL"
    /\ obj' = [kind |-> "TargetPair", v |-> TargetPair(given)]
    /\ Done("Target", "ok")
    /\ UNCHANGED file

\* t.mag[band] = value on the i-th target.
SetMag(i, band, value) ==
    /\ IsPair
    /\ obj' = [obj EXCEPT !.v.dicts[obj.v.mag[i]][band] = <<value>>]
    /\ DoneWith("setmag", "ok", {}, i)
    /\ UNCHANGED file

\* C30: objects built apart share no state that can be changed: of two
\* targets built with no mag argument, setting a magnitude of one leaves
\* the mag, the to_dict() and the star list line of the other as they were.
C30_NoSharedMag ==
    [][(IsPair /\ res'.op = "setmag" /\ obj.v.given = <<None, None>>) =>
          \A j \in (1..2) \ {res'.out} :
             /\ obj'.v.dicts[obj'.v.mag[j]] = obj.v.dicts[obj.v.mag[j]]
             /\ Target_mags(obj'.v, j) = Target_mags(obj.v, j)
             /\ Target_to_starlist(obj'.v, j) = Target_to_starlist(obj.v, j)]_vars

(***************************************************************************)
(* The operations above, on one object at a time.                          *)
(***************************************************************************)
\* Lists of no, one or two offsets, all of one frame class.
SameFrameLists ==
    UNION {{<<>>, <<TelescopeOffset(0, 0, "p", frame, TRUE)>>,
            <<TelescopeOffset(0, 0, "p", frame, TRUE),
              TelescopeOffset(0, 0, "p", frame, TRUE)>>} :
              frame \in FrameClasses}

NextLibrary ==
    \/ \E repeat \in {1, 2} : NewStare(repeat)
    \/ \E repeat \in {1, 2} : NewABBA(repeat)
    \/ \E offsets \in SameFrameLists : NewOffsetPattern(offsets, 1)
    \/ RoundTripPattern
    \/ \E acquisition \in Acquisitions, wrap \in Wraps :
          NewTargetModes(<<"PA">>, <<0>>, acquisition, <<"cal">>, wrap)
    \/ \E PMRA \in ProperMotions, PMDec \in ProperMotions, epoch \in Years :
          NewMovingTarget(PMRA, PMDec, epoch, None)
    \/ \E now \in {2020, 2021} : RoundTripTarget(now)
    \/ \E dx \in OffsetValues, dy \in OffsetValues, dr \in RotationValues :
          NewOffset(dx, dy, dr)
    \/ OffsetToDict
    \/ OffsetExecute
    \/ RoundTripOffset
    \/ \E dc \in DurationInputs : NewDurationConfig(dc)
    \/ CallDuration
    \/ \E target \in MatchTargets : CallMatchTime(target)
    \/ \E kind \in {"ObservingBlockList", "Sequence"}, data \in ElementLists :
          NewList(kind, data)
    \/ NewCalsList
    \/ CallListValidate
    \/ \E cls \in BlockClasses, blocktype \in {None, <<"focus">>} :
          NewBlock(cls, blocktype)
    \/ CallBlockCals
    \/ \E ping \in {"True", "False", "None"}, status_code \in {200, 404, 500} :
          CallUpload(ping, status_code)
    \/ \E given \in MagArguments \X MagArguments : NewTargetPair(given)
    \/ \E i \in 1..2, band \in Bands, value \in {10, 12} :
          SetMag(i, band, value)

SpecLibrary == InitObject /\ [][NextLibrary]_vars

\* C28: Target.validate() is atomic on failure: when it raises TargetError,
\* every field of the target has the value it had before the call; a default
\* validate() had filled in before the failing test is not left behind.
C28_ValidateAtomic ==
    [][(IsTarget /\ res'.op = "validate" /\ res'.status = "TargetError") =>
           obj' = obj]_vars

====
